---- MODULE Spec2Model ----
(***************************************************************************)
(* Model of the aggregation engine of src/report.js: the contribution      *)
(* calendar (createContributionCalendar), the two weekly series             *)
(* (groupCommitsByWeek, groupCodeFrequencyByWeek, getWeekKey), the          *)
(* per-repository step of run() that feeds them, and the contributor        *)
(* rankers of buildContributionReport and generateRepoContributionReport    *)
(* with the data source of their PRs and issues.                            *)
(*                                                                          *)
(* Time.  An instant is a whole number of hours since 1970-01-01T00:00Z.    *)
(* The process runs in a zone with a fixed offset of tz hours east of UTC;  *)
(* the Date methods the code calls are of two kinds and are modelled by     *)
(* what they compute: setHours, getDay, getDate, setDate, setFullYear work  *)
(* on the LOCAL calendar, toISOString and new Date("YYYY-MM-DD") on UTC.    *)
(* A date key "YYYY-MM-DD" is the number YYYY*10000 + MM*100 + DD, whose    *)
(* numeric order is the order localeCompare gives the strings.              *)
(***************************************************************************)
EXTENDS Integers, Sequences, FiniteSets, TLC

VARIABLES
    now,                \* the clock: the instant new Date() returns
    tz,                 \* the zone of the process, hours east of UTC
    commits,            \* commit records {date, login} (getAllOrgCommits)
    prs,                \* PR records {date, author} (getOrgPRsAndIssues)
    issues,             \* issue records {date, author} (getOrgPRsAndIssues)
    commitsWithDates,   \* commit records {date} of one repository
    codeFreq,           \* code frequency <<timestamp, additions, deletions>>
    calendar,           \* result of createContributionCalendar
    weeklyCommits,      \* result of groupCommitsByWeek
    weeklyCodeChanges,  \* weekly code changes of the repository
    report,             \* run(): the per-repository entries pushed so far
    stats,              \* generateContributionReport(): the stats block
    pullResponse,       \* upstream records of the pulls endpoint
    issueResponse,      \* upstream records of the issues endpoint
    members,            \* organisation members {login} (getOrgMembers)
    ranker,             \* which report ranks: "none", "org" or "repo"
    memberContributions,\* the contributor Map, values in insertion order
    topContributors,    \* the ranked, capped contributor list
    idx,                \* forEach: index of the next element
    fetcher,            \* the data-source function that is running
    fetchRepo,          \* getAllOrgCommits: index of the repository
    page,               \* pagination: let page
    hasMore,            \* pagination: let hasMore
    acc,                \* pagination: the records pushed so far
    requests,           \* the requests sent, each with the server's answer
    result,             \* what the data-source function returned
    warnings,           \* what the data-source function wrote with console.warn
    grid,               \* generateCalendarHTML: the cells of the grid
    calls,              \* the aggregator calls of the run, with their windows
    repos,              \* run(): the repositories getRepos returned
    ri,                 \* run(): index of the repository of the loop
    files,              \* the report files written so far
    attempts,           \* repositories whose contribution report was tried
    pc                  \* the step the run is at

vars == <<now, tz, commits, prs, issues, commitsWithDates, codeFreq,
          calendar, weeklyCommits, weeklyCodeChanges, report, stats,
          pullResponse, issueResponse, members, ranker, memberContributions,
          topContributors, idx, fetcher, fetchRepo, page, hasMore, acc,
          requests, result, warnings, grid, calls, repos, ri, files, attempts,
          pc>>

clock   == <<now, tz>>
events  == <<commits, prs, issues>>
repoIn  == <<commitsWithDates, codeFreq>>
weekly  == <<weeklyCommits, weeklyCodeChanges>>
upstream == <<pullResponse, issueResponse>>
ranking == <<members, ranker, memberContributions, topContributors, idx>>
paging  == <<fetcher, fetchRepo, page, hasMore, acc, requests, result,
             warnings>>
running == <<grid, calls, repos, ri, files, attempts>>

----------------------------------------------------------------------------
(* Calendar arithmetic of the Date object (proleptic Gregorian).            *)

HoursPerDay == 24

\* Day number (days since 1970-01-01) of a civil date; a day-of-month past
\* the end of the month runs over into the next month, as in Date.
DaysFromCivil(y, m, d) ==
    LET yy  == IF m <= 2 THEN y - 1 ELSE y
        era == yy \div 400
        yoe == yy - era * 400
        mp  == IF m > 2 THEN m - 3 ELSE m + 9
        doy == (153 * mp + 2) \div 5 + d - 1
        doe == yoe * 365 + yoe \div 4 - yoe \div 100 + doy
    IN  era * 146097 + doe - 719468

\* Civil date <<year, month, day>> of a day number.
CivilFromDays(n) ==
    LET z   == n + 719468
        era == z \div 146097
        doe == z - era * 146097
        yoe == (doe - doe \div 1460 + doe \div 36524 - doe \div 146096) \div 365
        doy == doe - (365 * yoe + yoe \div 4 - yoe \div 100)
        mp  == (5 * doy + 2) \div 153
        d   == doy - (153 * mp + 2) \div 5 + 1
        m   == IF mp < 10 THEN mp + 3 ELSE mp - 9
        y   == yoe + era * 400 + (IF m <= 2 THEN 1 ELSE 0)
    IN  <<y, m, d>>

\* The local calendar day an instant falls on, in a zone z hours east of UTC.
LocalDay(t, z) == (t + z) \div HoursPerDay

\* Date.setHours(0,0,0,0) reached for local day n: local midnight as an instant.
LocalMidnight(n, z) == n * HoursPerDay - z

\* Date.setHours(0, 0, 0, 0): the instant moved back to local midnight.
setHours0(t, z) == LocalMidnight(LocalDay(t, z), z)

\* Date.getDay(): local day of the week, Sunday = 0 ... Saturday = 6.
getDay(t, z) == (LocalDay(t, z) + 4) % 7

\* d.setDate(d.getDate() + k): the local calendar date moved by k days,
\* the local time of day kept.
addDays(t, k) == t + k * HoursPerDay

\* d.setFullYear(d.getFullYear() - 1): same local month, day and time of
\* day in the previous year (29 February runs over to 1 March).
setFullYearMinus1(t, z) ==
    LET c == CivilFromDays(LocalDay(t, z))
    IN  DaysFromCivil(c[1] - 1, c[2], c[3]) * HoursPerDay
          + ((t + z) % HoursPerDay) - z

\* The day numbers the model's instants fall on: 2022-01-01 .. 2025-12-31.
ModelDays == DaysFromCivil(2022, 1, 1) .. DaysFromCivil(2025, 12, 31)

\* The date key "YYYY-MM-DD" of every day of the model, as YYYYMMDD.
ISODateOfDay == [n \in ModelDays |->
    LET c == CivilFromDays(n) IN c[1] * 10000 + c[2] * 100 + c[3]]

\* d.toISOString().split('T')[0]: the UTC calendar date as a key.
toISODate(t) == ISODateOfDay[t \div HoursPerDay]

\* new Date("YYYY-MM-DD"): a date-only string is read as UTC midnight.
parseISODate(k) ==
    DaysFromCivil(k \div 10000, (k \div 100) % 100, k % 100) * HoursPerDay

\* const oneYearAgo = new Date(); setFullYear(-1); setHours(0, 0, 0, 0)
oneYearAgoOf(t, z) == setHours0(setFullYearMinus1(t, z), z)

----------------------------------------------------------------------------
(* A JavaScript Map is modelled as the sequence of its values in insertion  *)
(* order; every value carries its own key (field date or week).             *)

\* Position of key k among the keys ks (a sequence), 0 when absent.
IndexOfKey(ks, k) ==
    IF \E i \in DOMAIN ks : ks[i] = k
    THEN CHOOSE i \in DOMAIN ks : ks[i] = k
    ELSE 0

\* Array.prototype.sort((a, b) => a.week.localeCompare(b.week)) on the
\* values of a Map keyed by week: the keys are distinct, so the order of the
\* result is fixed by the keys alone.
SortByWeek(s) == SortSeq(s, LAMBDA a, b : a.week < b.week)

----------------------------------------------------------------------------
(* createContributionCalendar                                               *)

\* A Map filled by set() with the keys raw[1], raw[2], ... in turn holds
\* each distinct key once, at the place of its first set().
KeysInInsertionOrder(raw) ==
    IF Cardinality({raw[i] : i \in DOMAIN raw}) = Len(raw)
    THEN raw
    ELSE LET first == {i \in DOMAIN raw : \A j \in 1..(i - 1) : raw[j] # raw[i]}
             rank  == [i \in first |-> Cardinality({j \in first : j < i}) + 1]
         IN  [k \in 1..Cardinality(first) |->
                 raw[CHOOSE i \in first : rank[i] = k]]

\* Mutant of InitCalendar: the loop stops before today (d < today).
InitCalendar_StopsBeforeToday(oneYearAgo, today) ==
    LET n   == IF oneYearAgo < today
               THEN (today - oneYearAgo) \div HoursPerDay ELSE 0
        raw == [i \in 1..n |-> toISODate(addDays(oneYearAgo, i - 1))]
        ks  == KeysInInsertionOrder(raw)
    IN  [i \in DOMAIN ks |-> [date |-> ks[i], count |-> 0, level |-> 0]]

\* for (let d = new Date(oneYearAgo); d <= today; d.setDate(d.getDate() + 1))
\*     calendar.set(dateKey, { date: dateKey, count: 0, level: 0 })
InitCalendar(oneYearAgo, today) ==
    LET n   == IF oneYearAgo <= today
               THEN (today - oneYearAgo) \div HoursPerDay + 1 ELSE 0
        raw == [i \in 1..n |-> toISODate(addDays(oneYearAgo, i - 1))]
        ks  == KeysInInsertionOrder(raw)
    IN  [i \in DOMAIN ks |-> [date |-> ks[i], count |-> 0, level |-> 0]]

\* Mutant of CountEvent: every event counts 1, a PR too.
CountEvent_Unweighted(cal, ev, w) ==
    LET k == toISODate(ev.date)
        i == IndexOfKey([j \in DOMAIN cal |-> cal[j].date], k)
    IN  IF i = 0 THEN cal
        ELSE [cal EXCEPT ![i].count = @ + 1]

\* Mutant of CountEvent: an event dated before the first bucket is added
\* to the first bucket.
CountEvent_ClampsToFirst(cal, ev, w) ==
    LET k == toISODate(ev.date)
        i == IndexOfKey([j \in DOMAIN cal |-> cal[j].date], k)
    IN  IF i # 0 THEN [cal EXCEPT ![i].count = @ + w]
        ELSE IF Len(cal) > 0 /\ k < cal[1].date
             THEN [cal EXCEPT ![1].count = @ + w]
             ELSE cal

\* One callback of commits.forEach / prs.forEach / issues.forEach:
\* if (calendar.has(date)) calendar.get(date).count += w
CountEvent(cal, ev, w) ==
    LET k == toISODate(ev.date)
        i == IndexOfKey([j \in DOMAIN cal |-> cal[j].date], k)
    IN  IF i = 0 THEN cal
        ELSE [cal EXCEPT ![i].count = @ + w]

RECURSIVE CountEvents(_, _, _)
CountEvents(cal, evs, w) ==
    IF evs = <<>> THEN cal
    ELSE CountEvents(CountEvent(cal, Head(evs), w), Tail(evs), w)

\* Math.max(...counts, 1)
MaxCount(cal) ==
    LET cs == {cal[i].count : i \in DOMAIN cal} \cup {1}
    IN  CHOOSE m \in cs : \A c \in cs : c <= m

\* Mutant of LevelOf: the thresholds are exclusive (< in place of <=).
LevelOf_Exclusive(count, maxCount) ==
    IF count = 0 THEN 0
    ELSE IF 4 * count < maxCount THEN 1
    ELSE IF 2 * count < maxCount THEN 2
    ELSE IF 4 * count < 3 * maxCount THEN 3
    ELSE 4

\* The level of one day.  maxCount * 0.25, * 0.5 and * 0.75 are exact in
\* binary floating point, so count <= maxCount * 0.25 is 4*count <= maxCount.
LevelOf(count, maxCount) ==
    IF count = 0 THEN 0
    ELSE IF 4 * count <= maxCount THEN 1
    ELSE IF 2 * count <= maxCount THEN 2
    ELSE IF 4 * count <= 3 * maxCount THEN 3
    ELSE 4

createContributionCalendar(cs, ps, is, t, z) ==
    LET oneYearAgo == oneYearAgoOf(t, z)
        today      == setHours0(t, z)
        cal0 == InitCalendar(oneYearAgo, today)
        cal1 == CountEvents(cal0, cs, 1)
        cal2 == CountEvents(cal1, ps, 2)
        cal3 == CountEvents(cal2, is, 1)
        maxCount == MaxCount(cal3)
    IN  [i \in DOMAIN cal3 |->
            [cal3[i] EXCEPT !.level = LevelOf(cal3[i].count, maxCount)]]

----------------------------------------------------------------------------
(* getWeekKey, groupCommitsByWeek, groupCodeFrequencyByWeek                 *)

getWeekKey(date, z) ==
    LET d      == setHours0(date, z)
        day    == getDay(d, z)
        monday == addDays(d, (IF day = 0 THEN -6 ELSE 1) - day)
    IN  toISODate(monday)

WeeksInitialised == 52

\* for (let i = 0; i < 52; i++) { weekStart = oneYearAgo + 7i days;
\*     weeklyData.set(getWeekKey(weekStart), zero) }: the keys, in insertion order
InitWeekKeys(oneYearAgo, z) ==
    KeysInInsertionOrder(
        [i \in 1..WeeksInitialised |->
            getWeekKey(addDays(oneYearAgo, (i - 1) * 7), z)])

SortAndFilterWeeks_Unsorted(wd, oneYearAgo) ==
    SelectSeq(wd, LAMBDA w : parseISODate(w.week) >= oneYearAgo)

\* .sort((a, b) => a.week.localeCompare(b.week))
\* .filter(w => new Date(w.week) >= oneYearAgo)
SortAndFilterWeeks(wd, oneYearAgo) ==
    SelectSeq(SortByWeek(wd), LAMBDA w : parseISODate(w.week) >= oneYearAgo)

ZeroCommitWeek(k) == [week |-> k, count |-> 0]

\* One callback of commits.forEach in groupCommitsByWeek
CountCommit(wd, commit, oneYearAgo, z) ==
    IF commit.date < oneYearAgo THEN wd
    ELSE LET k   == getWeekKey(commit.date, z)
             wd1 == IF IndexOfKey([j \in DOMAIN wd |-> wd[j].week], k) = 0
                    THEN Append(wd, ZeroCommitWeek(k)) ELSE wd
             i   == IndexOfKey([j \in DOMAIN wd1 |-> wd1[j].week], k)
         IN  [wd1 EXCEPT ![i].count = @ + 1]

RECURSIVE CountCommits(_, _, _, _)
CountCommits(wd, cs, oneYearAgo, z) ==
    IF cs = <<>> THEN wd
    ELSE CountCommits(CountCommit(wd, Head(cs), oneYearAgo, z), Tail(cs), oneYearAgo, z)

groupCommitsByWeek(cs, t, z) ==
    LET oneYearAgo == oneYearAgoOf(t, z)
        ks  == InitWeekKeys(oneYearAgo, z)
        wd0 == [j \in DOMAIN ks |-> ZeroCommitWeek(ks[j])]
    IN  SortAndFilterWeeks(CountCommits(wd0, cs, oneYearAgo, z), oneYearAgo)

ZeroCodeWeek(k) == [week |-> k, additions |-> 0, deletions |-> 0]

\* One callback of codeFreq.forEach; item = <<timestamp, additions, deletions>>
AddCodeFreq(wd, item, oneYearAgo, z) ==
    IF item[1] < oneYearAgo THEN wd
    ELSE LET k   == getWeekKey(item[1], z)
             wd1 == IF IndexOfKey([j \in DOMAIN wd |-> wd[j].week], k) = 0
                    THEN Append(wd, ZeroCodeWeek(k)) ELSE wd
             i   == IndexOfKey([j \in DOMAIN wd1 |-> wd1[j].week], k)
         IN  [wd1 EXCEPT ![i].additions = @ + item[2],
                         ![i].deletions = @ + item[3]]

RECURSIVE AddCodeFreqs(_, _, _, _)
AddCodeFreqs(wd, cf, oneYearAgo, z) ==
    IF cf = <<>> THEN wd
    ELSE AddCodeFreqs(AddCodeFreq(wd, Head(cf), oneYearAgo, z), Tail(cf), oneYearAgo, z)

groupCodeFrequencyByWeek(cf, t, z) ==
    LET oneYearAgo == oneYearAgoOf(t, z)
        ks  == InitWeekKeys(oneYearAgo, z)
        wd0 == [j \in DOMAIN ks |-> ZeroCodeWeek(ks[j])]
    IN  SortAndFilterWeeks(AddCodeFreqs(wd0, cf, oneYearAgo, z), oneYearAgo)

----------------------------------------------------------------------------
(* getCodeFrequency: what it returns for one upstream response.  A response *)
(* is [throws, status, body, data]: fetch() threw; else the HTTP status,    *)
(* the kind of body text and, for a body that is a JSON array, the array.   *)

getCodeFrequency(res) ==
    IF res.throws THEN <<>>
    ELSE IF res.status = 202 \/ res.status = 204 THEN <<>>
    ELSE IF res.body = "blank" THEN <<>>
    ELSE IF res.body = "malformed" THEN <<>>
    ELSE IF res.body # "array" \/ Len(res.data) = 0 THEN <<>>
    ELSE res.data

\* run(): Array.isArray(codeFreq) && codeFreq.length > 0
\*            ? groupCodeFrequencyByWeek(codeFreq) : []
WeeklyCodeChangesOf(cf, t, z) ==
    IF Len(cf) > 0 THEN groupCodeFrequencyByWeek(cf, t, z) ELSE <<>>

\* run(): codeFreq.reduce((s, w) => s + (w[k] || 0), 0)
RECURSIVE SumField(_, _)
SumField(cf, k) ==
    IF cf = <<>> THEN 0 ELSE cf[1][k] + SumField(Tail(cf), k)

----------------------------------------------------------------------------
(* The data source of the contribution reports: what getOrgPRsAndIssues and *)
(* getRepoPRsAndIssues make of the upstream records.  An upstream record    *)
(* carries created_at, user (a login, or NoLogin when upstream gives no     *)
(* user) and, in the issues endpoint, the pull_request flag.                *)

NoLogin == "null"

\* pr => ({ date: pr.created_at, author: pr.user?.login || 'unknown', ... })
EventOf(rec) ==
    [date   |-> rec.created_at,
     author |-> IF rec.user = NoLogin THEN "unknown" ELSE rec.user]

\* prs.push(...repoPRs.map(pr => ({...})))
PRsOf(resp) == [i \in DOMAIN resp |-> EventOf(resp[i])]

IssuesOf_Unfiltered(resp) == [i \in DOMAIN resp |-> EventOf(resp[i])]

\* issues.push(...repoIssues.filter(issue => !issue.pull_request).map(...))
IssuesOf(resp) ==
    LET kept == SelectSeq(resp, LAMBDA r : ~r.pull_request)
    IN  [i \in DOMAIN kept |-> EventOf(kept[i])]

----------------------------------------------------------------------------
(* The contributor ranker of buildContributionReport and of                 *)
(* generateRepoContributionReport.  The Map memberContributions /           *)
(* contributorMap is the sequence of its values in insertion order; the     *)
(* avatar of a record plays no part in the ranking and is left out.         *)

TopOrgContributors == 20

TopRepoContributors == 10

NewContributor(login) ==
    [login |-> login, commits |-> 0, prs |-> 0, issues |-> 0, total |-> 0]

SeedMembers_None(ms) == <<>>

\* members.forEach(m => memberContributions.set(m.login, {...}))
SeedMembers(ms) ==
    LET ks == KeysInInsertionOrder([i \in DOMAIN ms |-> ms[i].login])
    IN  [i \in DOMAIN ks |-> NewContributor(ks[i])]

\* The weight total gains by one event of a kind.
WeightOf(kind) == IF kind = "prs" THEN 2 ELSE 1

\* Mutant of Bump: the counter of the kind alone is raised.
Bump_TotalUntouched(rec, kind) == [rec EXCEPT ![kind] = @ + 1]

Bump_TotalUnweighted(rec, kind) ==
    [rec EXCEPT ![kind] = @ + 1, !.total = @ + 1]

\* get(login).commits++ ; get(login).total++      (prs: total += 2)
Bump(rec, kind) ==
    [rec EXCEPT ![kind] = @ + 1, !.total = @ + WeightOf(kind)]

CountContribution_Sentinel(map, login, kind) ==
    LET key  == IF login = NoLogin THEN "unknown" ELSE login
        keys == [j \in DOMAIN map |-> map[j].login]
        m1   == IF IndexOfKey(keys, key) = 0
                THEN Append(map, NewContributor(key))
                ELSE map
        i    == IndexOfKey([j \in DOMAIN m1 |-> m1[j].login], key)
    IN  [m1 EXCEPT ![i] = Bump(@, kind)]

CountContribution_SeedOnly(map, login, kind) ==
    LET i == IndexOfKey([j \in DOMAIN map |-> map[j].login], login)
    IN  IF login = NoLogin \/ i = 0 THEN map
        ELSE [map EXCEPT ![i] = Bump(@, kind)]

\* One callback of commits.forEach / prs.forEach / issues.forEach:
\* if (login) { if (!map.has(login)) map.set(login, {...zeros});
\*              map.get(login)[kind]++; map.get(login).total += weight }
CountContribution(map, login, kind) ==
    IF login = NoLogin THEN map
    ELSE LET keys == [j \in DOMAIN map |-> map[j].login]
             m1   == IF IndexOfKey(keys, login) = 0
                     THEN Append(map, NewContributor(login))
                     ELSE map
             i    == IndexOfKey([j \in DOMAIN m1 |-> m1[j].login], login)
         IN  [m1 EXCEPT ![i] = Bump(@, kind)]

PlaceByTotal_TiesReversed(s, i) ==
    Cardinality({j \in DOMAIN s : s[j].total > s[i].total})
      + Cardinality({j \in DOMAIN s : s[j].total = s[i].total /\ j > i})
      + 1

\* The place of s[i] after a stable sort by total, descending: behind every
\* record with a larger total and every equal record that stood before it.
PlaceByTotal(s, i) ==
    Cardinality({j \in DOMAIN s : s[j].total > s[i].total})
      + Cardinality({j \in DOMAIN s : s[j].total = s[i].total /\ j < i})
      + 1

\* Array.prototype.sort((a, b) => b.total - a.total): a stable sort, records
\* that compare equal keep their order.
SortByTotal(s) ==
    LET place == [i \in DOMAIN s |-> PlaceByTotal(s, i)]
    IN  [p \in DOMAIN s |-> s[CHOOSE i \in DOMAIN s : place[i] = p]]

\* Array.prototype.slice(0, n)
slice0(s, n) == SubSeq(s, 1, IF Len(s) < n THEN Len(s) ELSE n)

\* Mutant of TopContributorsOf: the Map is cut first and sorted after.
TopContributorsOf_CutThenSorted(map, which) ==
    SortByTotal(slice0(map, IF which = "org" THEN TopOrgContributors
                                             ELSE TopRepoContributors))

\* Array.from(map.values()).sort(...).slice(0, 20)   (per repository: 10)
TopContributorsOf(map, which) ==
    slice0(SortByTotal(map),
           IF which = "org" THEN TopOrgContributors ELSE TopRepoContributors)

StatsOf_Unweighted(cs, ps, is) ==
    [totalCommits       |-> Len(cs),
     totalPRs           |-> Len(ps),
     totalIssues        |-> Len(is),
     totalContributions |-> Len(cs) + Len(ps) + Len(is)]

\* stats of generateContributionReport
StatsOf(cs, ps, is) ==
    [totalCommits       |-> Len(cs),
     totalPRs           |-> Len(ps),
     totalIssues        |-> Len(is),
     totalContributions |-> Len(cs) + (Len(ps) * 2) + Len(is)]

\* stats of generateRepoContributionReport
RepoStatsOf(cs, ps, is, map) ==
    [totalCommits       |-> Len(cs),
     totalPRs           |-> Len(ps),
     totalIssues        |-> Len(is),
     totalContributions |-> Len(cs) + (Len(ps) * 2) + Len(is),
     totalContributors  |-> Len(map)]

----------------------------------------------------------------------------
(* The instants, zones and records the specifications draw from.            *)

\* Zones: one hour west of UTC, UTC, one hour east of UTC.
TZs == {-1, 0, 1}

At(y, m, d, h) == DaysFromCivil(y, m, d) * HoursPerDay + h

\* Clock readings: a Monday and a Tuesday whose days a year earlier are a
\* Sunday and a Monday; 29 February; the first and the last day whose
\* trailing year holds a 29 February.
Nows == {At(2023, 6, 5, 12), At(2023, 6, 6, 12), At(2024, 2, 29, 12),
         At(2024, 3, 1, 12), At(2025, 2, 28, 23)}

NoStats == StatsOf(<<>>, <<>>, <<>>)

\* Every specification starts at some clock reading in some zone, with
\* nothing fetched and nothing computed.
InitAt(step) ==
    /\ now \in Nows
    /\ tz \in TZs
    /\ commits = <<>> /\ prs = <<>> /\ issues = <<>>
    /\ commitsWithDates = <<>> /\ codeFreq = <<>>
    /\ calendar = <<>> /\ weeklyCommits = <<>> /\ weeklyCodeChanges = <<>>
    /\ report = <<>> /\ stats = NoStats
    /\ pullResponse = <<>> /\ issueResponse = <<>>
    /\ members = <<>> /\ ranker = "none"
    /\ memberContributions = <<>> /\ topContributors = <<>> /\ idx = 1
    /\ fetcher = "none" /\ fetchRepo = 1 /\ page = 1 /\ hasMore = TRUE
    /\ acc = <<>> /\ requests = <<>> /\ result = <<>>
    /\ warnings = <<>>
    /\ grid = <<>> /\ calls = <<>> /\ repos = <<>> /\ ri = 1
    /\ files = <<>> /\ attempts = <<>>
    /\ pc = step

\* const calendar = createContributionCalendar(commits, prs, issues)
CallCreateContributionCalendar ==
    /\ pc = "fetch"
    /\ calendar' = createContributionCalendar(commits, prs, issues, now, tz)
    /\ pc' = "calendar"
    /\ UNCHANGED <<clock, paging, running, upstream, ranking, events, repoIn, weekly, report, stats>>

----------------------------------------------------------------------------
(* SpecCal: the data source yields commits, PRs and issues dated around the *)
(* window, then createContributionCalendar runs.                            *)

MaxEvents == 2

\* Commit records placed around the window of the run: 400 days back, the
\* last hour before the window opens, and the current instant.
CommitChoices(t, z) ==
    {[date |-> addDays(t, -400),        login |-> NoLogin],
     [date |-> oneYearAgoOf(t, z) - 1,  login |-> "alice"],
     [date |-> t,                       login |-> NoLogin],
     [date |-> t,                       login |-> "alice"]}

\* PR records: 400 days back, the current instant and the next day.
PRChoices(t, z) ==
    {[date |-> addDays(t, -400), author |-> "bob"],
     [date |-> t,                author |-> "alice"],
     [date |-> addDays(t, 1),    author |-> "unknown"]}

\* Issue records: the current instant and the first instant of the window.
IssueChoices(t, z) ==
    {[date |-> t,                   author |-> "alice"],
     [date |-> oneYearAgoOf(t, z),  author |-> "bob"]}

YieldCommit ==
    /\ pc = "fetch"
    /\ Len(commits) + Len(prs) + Len(issues) < MaxEvents
    /\ \E c \in CommitChoices(now, tz) : commits' = Append(commits, c)
    /\ UNCHANGED <<clock, paging, running, upstream, ranking, prs, issues, repoIn, calendar, weekly, report, stats, pc>>

YieldPR ==
    /\ pc = "fetch"
    /\ Len(commits) + Len(prs) + Len(issues) < MaxEvents
    /\ \E p \in PRChoices(now, tz) : prs' = Append(prs, p)
    /\ UNCHANGED <<clock, paging, running, upstream, ranking, commits, issues, repoIn, calendar, weekly, report, stats, pc>>

YieldIssue ==
    /\ pc = "fetch"
    /\ Len(commits) + Len(prs) + Len(issues) < MaxEvents
    /\ \E i \in IssueChoices(now, tz) : issues' = Append(issues, i)
    /\ UNCHANGED <<clock, paging, running, upstream, ranking, commits, prs, repoIn, calendar, weekly, report, stats, pc>>

InitCal == InitAt("fetch")

NextCal ==
    \/ YieldCommit
    \/ YieldPR
    \/ YieldIssue
    \/ CallCreateContributionCalendar

SpecCal == InitCal /\ [][NextCal]_vars

----------------------------------------------------------------------------
(* SpecLevel: several events on the current day and the day before, so that *)
(* the day counts differ and every level occurs.                            *)

MaxLevelEvents == 3

YieldCommitToday ==
    /\ pc = "fetch"
    /\ Len(commits) + Len(prs) + Len(issues) < MaxLevelEvents
    /\ commits' = Append(commits, [date |-> now, login |-> "alice"])
    /\ UNCHANGED <<clock, paging, running, upstream, ranking, prs, issues, repoIn, calendar, weekly, report, stats, pc>>

YieldPRTodayOrYesterday ==
    /\ pc = "fetch"
    /\ Len(commits) + Len(prs) + Len(issues) < MaxLevelEvents
    /\ \E d \in {now, addDays(now, -1)} :
          prs' = Append(prs, [date |-> d, author |-> "alice"])
    /\ UNCHANGED <<clock, paging, running, upstream, ranking, commits, issues, repoIn, calendar, weekly, report, stats, pc>>

YieldIssueYesterday ==
    /\ pc = "fetch"
    /\ Len(commits) + Len(prs) + Len(issues) < MaxLevelEvents
    /\ issues' = Append(issues, [date |-> addDays(now, -1), author |-> "bob"])
    /\ UNCHANGED <<clock, paging, running, upstream, ranking, commits, prs, repoIn, calendar, weekly, report, stats, pc>>

InitLevel == InitAt("fetch")

NextLevel ==
    \/ YieldCommitToday
    \/ YieldPRTodayOrYesterday
    \/ YieldIssueYesterday
    \/ CallCreateContributionCalendar

SpecLevel == InitLevel /\ [][NextLevel]_vars

----------------------------------------------------------------------------
(* SpecWeek: the data source yields one repository's commits and code       *)
(* frequency, then groupCommitsByWeek and groupCodeFrequencyByWeek run.     *)

MaxWeekInputs == 2

\* UTC midnight of the first Sunday on or after the UTC day of t: upstream
\* code-frequency weeks start on Sunday 00:00 UTC.
SundayOnOrAfter(t) ==
    LET n == t \div HoursPerDay
    IN  (n + ((7 - ((n + 4) % 7)) % 7)) * HoursPerDay

\* Commit dates: 400 days back, the first instant of the window, the
\* current instant, the next day.
CommitDateChoices(t, z) ==
    {addDays(t, -400), oneYearAgoOf(t, z), t, addDays(t, 1)}

\* Code-frequency rows: an old week, the first upstream week that starts
\* inside the window, the latest upstream week.
CodeFreqChoices(t, z) ==
    {<<SundayOnOrAfter(addDays(t, -400)), 1, -1>>,
     <<SundayOnOrAfter(oneYearAgoOf(t, z) + z), 7, -2>>,
     <<SundayOnOrAfter(addDays(t, -6)), 5, -3>>}

YieldCommitWithDate ==
    /\ pc = "fetch"
    /\ Len(commitsWithDates) + Len(codeFreq) < MaxWeekInputs
    /\ \E d \in CommitDateChoices(now, tz) :
          commitsWithDates' = Append(commitsWithDates, [date |-> d])
    /\ UNCHANGED <<clock, paging, running, upstream, ranking, events, codeFreq, calendar, weekly, report, stats, pc>>

YieldCodeFreq ==
    /\ pc = "fetch"
    /\ Len(commitsWithDates) + Len(codeFreq) < MaxWeekInputs
    /\ \E row \in CodeFreqChoices(now, tz) : codeFreq' = Append(codeFreq, row)
    /\ UNCHANGED <<clock, paging, running, upstream, ranking, events, commitsWithDates, calendar, weekly, report, stats, pc>>

\* const weeklyCommits = groupCommitsByWeek(commitsWithDates)
CallGroupCommitsByWeek ==
    /\ pc = "fetch"
    /\ weeklyCommits' = groupCommitsByWeek(commitsWithDates, now, tz)
    /\ pc' = "commitsGrouped"
    /\ UNCHANGED <<clock, paging, running, upstream, ranking, events, repoIn, calendar, weeklyCodeChanges, report, stats>>

\* groupCodeFrequencyByWeek(codeFreq)
CallGroupCodeFrequencyByWeek ==
    /\ pc = "commitsGrouped"
    /\ weeklyCodeChanges' = groupCodeFrequencyByWeek(codeFreq, now, tz)
    /\ pc' = "weekly"
    /\ UNCHANGED <<clock, paging, running, upstream, ranking, events, repoIn, calendar, weeklyCommits, report, stats>>

InitWeek == InitAt("fetch")

NextWeek ==
    \/ YieldCommitWithDate
    \/ YieldCodeFreq
    \/ CallGroupCommitsByWeek
    \/ CallGroupCodeFrequencyByWeek

SpecWeek == InitWeek /\ [][NextWeek]_vars

----------------------------------------------------------------------------
(* SpecRun: run() for one repository, then generateContributionReport().    *)

\* What the code-frequency endpoint can answer: the fetch throws; 202 while
\* the statistics are computed; 204 no content; a blank body; a body that is
\* not JSON; JSON null; a JSON object (an error message); an empty array; an
\* array with one row.
CodeFreqResponses(t, z) ==
    {[throws |-> TRUE,  status |-> 0,   body |-> "blank",     data |-> <<>>],
     [throws |-> FALSE, status |-> 202, body |-> "object",    data |-> <<>>],
     [throws |-> FALSE, status |-> 204, body |-> "blank",     data |-> <<>>],
     [throws |-> FALSE, status |-> 200, body |-> "blank",     data |-> <<>>],
     [throws |-> FALSE, status |-> 200, body |-> "malformed", data |-> <<>>],
     [throws |-> FALSE, status |-> 200, body |-> "null",      data |-> <<>>],
     [throws |-> FALSE, status |-> 404, body |-> "object",    data |-> <<>>],
     [throws |-> FALSE, status |-> 200, body |-> "array",     data |-> <<>>],
     [throws |-> FALSE, status |-> 200, body |-> "array",
      data |-> << <<SundayOnOrAfter(addDays(t, -6)), 5, -3>> >>]}

\* const codeFreq = await getCodeFrequency(repo)
RunGetCodeFrequency ==
    /\ pc = "getCodeFrequency"
    /\ \E res \in CodeFreqResponses(now, tz) : codeFreq' = getCodeFrequency(res)
    /\ pc' = "getCommitsWithDates"
    /\ UNCHANGED <<clock, paging, running, upstream, ranking, events, commitsWithDates, calendar, weekly, report, stats>>

\* const commitsWithDates = await getCommitsWithDates(repo)
RunGetCommitsWithDates ==
    /\ pc = "getCommitsWithDates"
    /\ \E cs \in {<<>>, <<[date |-> now]>>} : commitsWithDates' = cs
    /\ pc' = "group"
    /\ UNCHANGED <<clock, paging, running, upstream, ranking, events, codeFreq, calendar, weekly, report, stats>>

\* The rest of the loop body of run(): the totals, the two weekly series,
\* report.push({...})
RunGroupAndPush ==
    /\ pc = "group"
    /\ weeklyCommits' = groupCommitsByWeek(commitsWithDates, now, tz)
    /\ weeklyCodeChanges' = WeeklyCodeChangesOf(codeFreq, now, tz)
    /\ report' = Append(report,
          [additions         |-> SumField(codeFreq, 2),
           deletions         |-> SumField(codeFreq, 3),
           weeklyCommits     |-> weeklyCommits',
           weeklyCodeChanges |-> weeklyCodeChanges'])
    /\ pc' = "getAllOrgCommits"
    /\ UNCHANGED <<clock, paging, running, upstream, ranking, events, repoIn, calendar, stats>>

\* const commits = await getAllOrgCommits(repos)
RunGetAllOrgCommits ==
    /\ pc = "getAllOrgCommits"
    /\ \E cs \in {<<>>, <<[date |-> now, login |-> NoLogin]>>} : commits' = cs
    /\ pc' = "getOrgPRsAndIssues"
    /\ UNCHANGED <<clock, paging, running, upstream, ranking, prs, issues, repoIn, calendar, weekly, report, stats>>

\* const { prs, issues } = await getOrgPRsAndIssues(repos)
RunGetOrgPRsAndIssues ==
    /\ pc = "getOrgPRsAndIssues"
    /\ \E ps \in {<<>>, <<[date |-> now, author |-> "alice"]>>},
          is \in {<<>>, <<[date |-> addDays(now, -1), author |-> "bob"]>>} :
          /\ prs' = ps
          /\ issues' = is
    /\ pc' = "createCalendar"
    /\ UNCHANGED <<clock, paging, running, upstream, ranking, commits, repoIn, calendar, weekly, report, stats>>

\* const calendar = createContributionCalendar(commits, prs, issues);
\* const stats = {...}
RunAssemble ==
    /\ pc = "createCalendar"
    /\ calendar' = createContributionCalendar(commits, prs, issues, now, tz)
    /\ stats' = StatsOf(commits, prs, issues)
    /\ pc' = "assembled"
    /\ UNCHANGED <<clock, paging, running, upstream, ranking, events, repoIn, weekly, report>>

InitRun == InitAt("getCodeFrequency")

NextRun ==
    \/ RunGetCodeFrequency
    \/ RunGetCommitsWithDates
    \/ RunGroupAndPush
    \/ RunGetAllOrgCommits
    \/ RunGetOrgPRsAndIssues
    \/ RunAssemble

SpecRun == InitRun /\ [][NextRun]_vars

----------------------------------------------------------------------------
(* SpecRank: the contribution reports.  generateContributionReport() gets   *)
(* the members, the commits, the PRs and issues, builds the calendar and    *)
(* the stats and hands them to buildContributionReport(), which ranks; the  *)
(* loop of run() gets one repository's commits, PRs and issues and hands    *)
(* them to generateRepoContributionReport().  The forEach loops of the      *)
(* rankers run one callback per step.                                       *)

ManyMembers == 21

Member(l) == [login |-> l]

\* Member lists: none; two; one listed twice; more than the report shows.
MemberLists ==
    {<<>>,
     <<Member("alice"), Member("bob")>>,
     <<Member("carol"), Member("alice"), Member("carol")>>,
     [i \in 1..ManyMembers |-> Member("m" \o ToString(i))]}

\* Authors of the commits of a busy repository, more than a ranked list holds.
ManyAuthors == 11

\* Commit lists: with and without a login, inside and before the window, and
\* one commit of each of many authors with a second commit of the last one.
RankCommitLists(t) ==
    {[i \in 1..ManyAuthors |->
         [date |-> addDays(t, -1), login |-> "c" \o ToString(i)]]
       \o <<[date |-> addDays(t, -1), login |-> "c" \o ToString(ManyAuthors)]>>,
     <<>>,
     <<[date |-> t, login |-> NoLogin]>>,
     <<[date |-> addDays(t, -1),   login |-> "dave"],
       [date |-> addDays(t, -1),   login |-> NoLogin],
       [date |-> addDays(t, -400), login |-> "alice"]>>,
     <<[date |-> addDays(t, -1),   login |-> "erin"],
       [date |-> addDays(t, -1),   login |-> "dave"]>>}

\* Answers of the pulls endpoint; upstream gives no user for a deleted
\* account.
PullResponses(t) ==
    {<<>>,
     <<[created_at |-> addDays(t, -1), user |-> "alice"]>>,
     <<[created_at |-> addDays(t, -1), user |-> NoLogin],
       [created_at |-> addDays(t, -1), user |-> "bob"]>>}

\* Answers of the issues endpoint, which lists pull requests too.
IssueResponses(t) ==
    {<<>>,
     <<[created_at |-> addDays(t, -1), user |-> "alice", pull_request |-> FALSE]>>,
     <<[created_at |-> addDays(t, -1), user |-> "bob",   pull_request |-> TRUE],
       [created_at |-> addDays(t, -1), user |-> "erin",  pull_request |-> FALSE]>>,
     <<[created_at |-> t,              user |-> NoLogin, pull_request |-> FALSE]>>}

\* Where the forEach loops stand: the loop at `stage` with index i, or the
\* first later loop that has an element left, or the sort.
RankPosition(stage, i) ==
    LET s1 == IF stage = "rankCommits" /\ i > Len(commits)
              THEN <<"rankPRs", 1>> ELSE <<stage, i>>
        s2 == IF s1[1] = "rankPRs" /\ s1[2] > Len(prs)
              THEN <<"rankIssues", 1>> ELSE s1
    IN  IF s2[1] = "rankIssues" /\ s2[2] > Len(issues)
        THEN <<"rankSort", 1>> ELSE s2

\* const members = await getOrgMembers()
GetOrgMembers ==
    /\ pc = "start"
    /\ \E ms \in MemberLists : members' = ms
    /\ ranker' = "org"
    /\ pc' = "getAllOrgCommits"
    /\ UNCHANGED <<clock, paging, running, upstream, events, repoIn, calendar, weekly, report,
                   stats, memberContributions, topContributors, idx>>

\* const commits = await getAllOrgCommits(repos)
GetAllOrgCommits ==
    /\ pc = "getAllOrgCommits"
    /\ \E cs \in RankCommitLists(now) : commits' = cs
    /\ pc' = "getPRsAndIssues"
    /\ UNCHANGED <<clock, paging, running, upstream, ranking, prs, issues, repoIn, calendar,
                   weekly, report, stats>>

\* const commits = await getRepoCommitsForContribution(repo)
GetRepoCommitsForContribution ==
    /\ pc = "start"
    /\ \E cs \in RankCommitLists(now) : commits' = cs
    /\ ranker' = "repo"
    /\ pc' = "getPRsAndIssues"
    /\ UNCHANGED <<clock, paging, running, upstream, prs, issues, repoIn, calendar, weekly,
                   report, stats, members, memberContributions,
                   topContributors, idx>>

\* const { prs, issues } = await getOrgPRsAndIssues(repos)
\* const { prs, issues } = await getRepoPRsAndIssues(repo)
GetPRsAndIssues ==
    /\ pc = "getPRsAndIssues"
    /\ \E pr \in PullResponses(now), ir \in IssueResponses(now) :
          /\ pullResponse' = pr
          /\ issueResponse' = ir
          /\ prs' = PRsOf(pr)
          /\ issues' = IssuesOf(ir)
    /\ pc' = "createCalendar"
    /\ UNCHANGED <<clock, paging, running, ranking, commits, repoIn, calendar, weekly, report,
                   stats>>

\* generateContributionReport: the calendar and the stats
CreateCalendarAndStats ==
    /\ pc = "createCalendar"
    /\ ranker = "org"
    /\ calendar' = createContributionCalendar(commits, prs, issues, now, tz)
    /\ stats' = StatsOf(commits, prs, issues)
    /\ pc' = "seed"
    /\ UNCHANGED <<clock, paging, running, upstream, ranking, events, repoIn, weekly, report>>

\* buildContributionReport: members.forEach(...)
RankSeedMembers ==
    /\ pc = "seed"
    /\ memberContributions' = SeedMembers(members)
    /\ pc' = RankPosition("rankCommits", 1)[1]
    /\ idx' = 1
    /\ UNCHANGED <<clock, paging, running, upstream, events, repoIn, calendar, weekly, report,
                   stats, members, ranker, topContributors>>

\* generateRepoContributionReport: the calendar, and an empty contributorMap
CreateRepoCalendar ==
    /\ pc = "createCalendar"
    /\ ranker = "repo"
    /\ calendar' = createContributionCalendar(commits, prs, issues, now, tz)
    /\ memberContributions' = <<>>
    /\ pc' = RankPosition("rankCommits", 1)[1]
    /\ idx' = 1
    /\ UNCHANGED <<clock, paging, running, upstream, events, repoIn, weekly, report, stats,
                   members, ranker, topContributors>>

\* one callback of commits.forEach
RankCommit ==
    /\ pc = "rankCommits"
    /\ memberContributions' =
          CountContribution(memberContributions, commits[idx].login, "commits")
    /\ pc' = RankPosition("rankCommits", idx + 1)[1]
    /\ idx' = RankPosition("rankCommits", idx + 1)[2]
    /\ UNCHANGED <<clock, paging, running, upstream, events, repoIn, calendar, weekly, report,
                   stats, members, ranker, topContributors>>

\* one callback of prs.forEach
RankPR ==
    /\ pc = "rankPRs"
    /\ memberContributions' =
          CountContribution(memberContributions, prs[idx].author, "prs")
    /\ pc' = RankPosition("rankPRs", idx + 1)[1]
    /\ idx' = RankPosition("rankPRs", idx + 1)[2]
    /\ UNCHANGED <<clock, paging, running, upstream, events, repoIn, calendar, weekly, report,
                   stats, members, ranker, topContributors>>

\* one callback of issues.forEach
RankIssue ==
    /\ pc = "rankIssues"
    /\ memberContributions' =
          CountContribution(memberContributions, issues[idx].author, "issues")
    /\ pc' = RankPosition("rankIssues", idx + 1)[1]
    /\ idx' = RankPosition("rankIssues", idx + 1)[2]
    /\ UNCHANGED <<clock, paging, running, upstream, events, repoIn, calendar, weekly, report,
                   stats, members, ranker, topContributors>>

\* topContributors = Array.from(map.values()).sort(...).slice(0, n); the
\* per-repository report computes its stats after it.
RankSortAndSlice ==
    /\ pc = "rankSort"
    /\ topContributors' = TopContributorsOf(memberContributions, ranker)
    /\ stats' = IF ranker = "repo"
                THEN RepoStatsOf(commits, prs, issues, memberContributions)
                ELSE stats
    /\ pc' = "ranked"
    /\ UNCHANGED <<clock, paging, running, upstream, events, repoIn, calendar, weekly, report,
                   members, ranker, memberContributions, idx>>

\* The contribution reports are studied at one clock reading, in each zone.
InitRank == InitAt("start") /\ now = At(2023, 6, 6, 12)

NextRank ==
    \/ GetOrgMembers
    \/ GetAllOrgCommits
    \/ GetRepoCommitsForContribution
    \/ GetPRsAndIssues
    \/ CreateCalendarAndStats
    \/ RankSeedMembers
    \/ CreateRepoCalendar
    \/ RankCommit
    \/ RankPR
    \/ RankIssue
    \/ RankSortAndSlice

SpecRank == InitRank /\ [][NextRank]_vars

----------------------------------------------------------------------------
(* SpecAgain: the three aggregators as functions of their input lists.  The *)
(* lists are drawn at the start; the aggregators run on them, and run again *)
(* at the same clock reading, on the same lists or after the data source    *)
(* has delivered the same records in another order.                         *)

MaxAgainInputs == 2

\* The sequences over S of length at most n.
ListsUpTo(S, n) == UNION {[1..k -> S] : k \in 0..n}

\* The orders a list can be delivered in.
OrdersOf(s) ==
    {[i \in DOMAIN s |-> s[f[i]]] :
        f \in {g \in [DOMAIN s -> DOMAIN s] :
                  \A a, b \in DOMAIN s : g[a] = g[b] => a = b}}

\* Commit dates: the first instant of the window, the current instant and a
\* day of the week after the current one.
AgainCommitDates(t, z) ==
    {[date |-> oneYearAgoOf(t, z)], [date |-> t], [date |-> addDays(t, 8)]}

\* Code-frequency rows of the latest upstream weeks.
AgainCodeFreq(t) ==
    {<<SundayOnOrAfter(addDays(t, -6)), 5, -3>>,
     <<SundayOnOrAfter(t), 2, -1>>,
     <<SundayOnOrAfter(addDays(t, 7)), 4, 0>>}

AfterAggregate ==
    CASE pc = "input"      -> "aggregated"
      [] pc = "aggregated" -> "again"
      [] pc = "reordered"  -> "againReordered"

Aggregate_SharedAccumulator ==
    /\ pc \in {"input", "aggregated", "reordered"}
    /\ calendar' = createContributionCalendar(commits, prs, issues, now, tz)
    /\ weeklyCommits' =
          LET oneYearAgo == oneYearAgoOf(now, tz)
              ks  == InitWeekKeys(oneYearAgo, tz)
              wd0 == IF weeklyCommits = <<>>
                     THEN [j \in DOMAIN ks |-> ZeroCommitWeek(ks[j])]
                     ELSE weeklyCommits
          IN  SortAndFilterWeeks(
                  CountCommits(wd0, commitsWithDates, oneYearAgo, tz), oneYearAgo)
    /\ weeklyCodeChanges' = groupCodeFrequencyByWeek(codeFreq, now, tz)
    /\ pc' = AfterAggregate
    /\ UNCHANGED <<clock, paging, running, upstream, ranking, events, repoIn, report, stats>>

\* createContributionCalendar(commits, prs, issues),
\* groupCommitsByWeek(commitsWithDates), groupCodeFrequencyByWeek(codeFreq):
\* each builds its Map anew and reads its list.
Aggregate ==
    /\ pc \in {"input", "aggregated", "reordered"}
    /\ calendar' = createContributionCalendar(commits, prs, issues, now, tz)
    /\ weeklyCommits' = groupCommitsByWeek(commitsWithDates, now, tz)
    /\ weeklyCodeChanges' = groupCodeFrequencyByWeek(codeFreq, now, tz)
    /\ pc' = AfterAggregate
    /\ UNCHANGED <<clock, paging, running, upstream, ranking, events, repoIn, report, stats>>

\* The data source delivers the same records in another order.
Reorder ==
    /\ pc = "aggregated"
    /\ \E cs \in OrdersOf(commits), ps \in OrdersOf(prs),
          is \in OrdersOf(issues), cd \in OrdersOf(commitsWithDates),
          cf \in OrdersOf(codeFreq) :
          /\ <<cs, ps, is, cd, cf>>
                # <<commits, prs, issues, commitsWithDates, codeFreq>>
          /\ commits' = cs /\ prs' = ps /\ issues' = is
          /\ commitsWithDates' = cd /\ codeFreq' = cf
    /\ pc' = "reordered"
    /\ UNCHANGED <<clock, paging, running, upstream, ranking, calendar, weekly, report, stats>>

InitAgain ==
    /\ now = At(2023, 6, 5, 12)
    /\ tz \in TZs
    /\ commits \in ListsUpTo(CommitChoices(now, tz), MaxAgainInputs)
    /\ prs \in ListsUpTo(PRChoices(now, tz), MaxAgainInputs - Len(commits))
    /\ issues \in ListsUpTo(IssueChoices(now, tz),
                            MaxAgainInputs - Len(commits) - Len(prs))
    /\ commitsWithDates \in ListsUpTo(AgainCommitDates(now, tz),
                            MaxAgainInputs - Len(commits) - Len(prs) - Len(issues))
    /\ codeFreq \in ListsUpTo(AgainCodeFreq(now),
                            MaxAgainInputs - Len(commits) - Len(prs) - Len(issues)
                               - Len(commitsWithDates))
    /\ calendar = <<>> /\ weeklyCommits = <<>> /\ weeklyCodeChanges = <<>>
    /\ report = <<>> /\ stats = NoStats
    /\ pullResponse = <<>> /\ issueResponse = <<>>
    /\ members = <<>> /\ ranker = "none"
    /\ memberContributions = <<>> /\ topContributors = <<>> /\ idx = 1
    /\ fetcher = "none" /\ fetchRepo = 1 /\ page = 1 /\ hasMore = TRUE
    /\ acc = <<>> /\ requests = <<>> /\ result = <<>>
    /\ warnings = <<>>
    /\ grid = <<>> /\ calls = <<>> /\ repos = <<>> /\ ri = 1
    /\ files = <<>> /\ attempts = <<>>
    /\ pc = "input"

NextAgain ==
    \/ Aggregate
    \/ Reorder

SpecAgain == InitAgain /\ [][NextAgain]_vars

----------------------------------------------------------------------------
(* The data-source functions and their requests.  A request is recorded     *)
(* with the server's answer to it: fetch() threw (throws); else res.ok, the *)
(* kind of body ("malformed" makes res.json() throw, "object" is JSON that  *)
(* is no array, "array" is the array data) and the Link header, a sequence  *)
(* of <<rel, page>> pairs that is empty when the header is absent.          *)

Answer(r, p, throws, ok, body, data, link, n) ==
    [repo |-> r, page |-> p, throws |-> throws, ok |-> ok, body |-> body,
     data |-> data, link |-> link, total |-> n]

\* link.includes('rel="next"') / link.match(/&page=(\d+)>; rel="last"/)
HasRel(link, rel) == \E i \in DOMAIN link : link[i][1] = rel

PageOfRel(link, rel) == link[CHOOSE i \in DOMAIN link : link[i][1] = rel][2]

\* The Link header upstream sends with page p of n records, perPage a page:
\* none when everything fits one page, else next and last on every page but
\* the last, and prev and first on every page but the first.
LinkHeader(n, perPage, p) ==
    LET last == (n + perPage - 1) \div perPage
    IN  IF last <= 1 THEN <<>>
        ELSE (IF p < last THEN << <<"next", p + 1>>, <<"last", last>> >>
                          ELSE <<>>)
             \o (IF p > 1 THEN << <<"prev", p - 1>>, <<"first", 1>> >>
                          ELSE <<>>)

\* getCommitCount: if (!res.ok) return 0; if (!link) return 0;
\* return match ? parseInt(match[1]) : 0; catch: return 0
getCommitCount(res) ==
    IF res.throws THEN 0
    ELSE IF ~res.ok THEN 0
    ELSE IF res.link = <<>> THEN 0
    ELSE IF HasRel(res.link, "last") THEN PageOfRel(res.link, "last")
    ELSE 0

\* getCommitCount: the console.warn of the !res.ok branch and of the catch
CommitCountWarnings(res) ==
    IF res.throws THEN <<"Error fetching commit count">>
    ELSE IF ~res.ok THEN <<"Could not fetch commits">>
    ELSE <<>>

\* getCodeFrequency: the console.warn of the parse error and of the catch
CodeFrequencyWarnings(res) ==
    IF res.throws THEN <<"Error fetching code frequency">>
    ELSE IF res.status = 202 \/ res.status = 204 THEN <<>>
    ELSE IF res.body = "blank" THEN <<>>
    ELSE IF res.body = "malformed" THEN <<"Could not parse code frequency">>
    ELSE <<>>

\* The page limits of the four capped loops: while (hasMore && page <= cap)
CommitsWithDatesPages == 10
AllOrgCommitsPages == 5
RepoCommitsPages == 20
OrgMembersPages == 10

PagingFetchers ==
    {"getCommitsWithDates", "getAllOrgCommits",
     "getRepoCommitsForContribution", "getOrgMembers"}

PageCap(fn) ==
    CASE fn = "getCommitsWithDates"           -> CommitsWithDatesPages
      [] fn = "getAllOrgCommits"              -> AllOrgCommitsPages
      [] fn = "getRepoCommitsForContribution" -> RepoCommitsPages
      [] fn = "getOrgMembers"                 -> OrgMembersPages

\* Mutant of LoopContinues: the limit is tested one page late.
LoopContinues_OnePageLate(fn, p, more) == more /\ p <= PageCap(fn) + 1

\* while (hasMore && page <= cap)
LoopContinues(fn, p, more) == more /\ p <= PageCap(fn)

\* What one answer does to the loop: "caught" (fetch or res.json() threw),
\* "break" (!res.ok), "stop" (no array or an empty one: hasMore = false;
\* break) or "more" (the page is pushed and page++).
AfterAnswer(a) ==
    IF a.throws THEN "caught"
    ELSE IF ~a.ok THEN "break"
    ELSE IF a.body = "malformed" THEN "caught"
    ELSE IF a.body # "array" \/ Len(a.data) = 0 THEN "stop"
    ELSE "more"

\* The console.warn of a loop: getCommitsWithDates and getOrgMembers warn of
\* a response that is not OK, the other two break silently; every catch warns.
PagingWarnings(fn, a) ==
    IF AfterAnswer(a) = "caught" THEN <<"Error fetching">>
    ELSE IF AfterAnswer(a) = "break"
            /\ fn \in {"getCommitsWithDates", "getOrgMembers"}
         THEN <<"Could not fetch">>
    ELSE <<>>

\* getOrgPRsAndIssues, one repository: if (prRes.ok) prs.push(...);
\* if (issueRes.ok) issues.push(...); the catch of the repository keeps what
\* was pushed before the throw.  Reading an answer throws when fetch() or
\* res.json() throws, or when the body is no array (repoPRs.map).
ReadingThrows(a) == a.throws \/ (a.ok /\ a.body # "array")

getOrgPRsAndIssues(pa, ia) ==
    [prs    |-> IF ReadingThrows(pa) \/ ~pa.ok THEN <<>> ELSE PRsOf(pa.data),
     issues |-> IF ReadingThrows(pa) \/ ReadingThrows(ia) \/ ~ia.ok
                THEN <<>> ELSE IssuesOf(ia.data)]

PRsAndIssuesWarnings(pa, ia) ==
    IF ReadingThrows(pa) \/ ReadingThrows(ia)
    THEN <<"Error fetching PRs/issues">> ELSE <<>>

----------------------------------------------------------------------------
(* Specification SpecFetch: one call of a data-source function against a    *)
(* server that answers each request as it likes.                            *)

\* Repositories in the list given to getAllOrgCommits.
FetchRepos == 2

\* Largest number of commits of the repository getCommitCount asks about.
MaxCommits == 3

\* The records of one page of a listing.
PageRecords(r, p) == <<[repo |-> r, page |-> p]>>

\* What the server may answer to the request for page p of repository r.
PageAnswers(r, p) ==
    {Answer(r, p, TRUE,  FALSE, "object",    <<>>, <<>>, 0),
     Answer(r, p, FALSE, FALSE, "object",    <<>>, <<>>, 0),
     Answer(r, p, FALSE, TRUE,  "malformed", <<>>, <<>>, 0),
     Answer(r, p, FALSE, TRUE,  "object",    <<>>, <<>>, 0),
     Answer(r, p, FALSE, TRUE,  "array",     <<>>, <<>>, 0),
     Answer(r, p, FALSE, TRUE,  "array",     PageRecords(r, p), <<>>, 0),
     Answer(r, p, FALSE, TRUE,  "array",     PageRecords(r, p),
            << <<"next", p + 1>> >>, 0)}

\* What the server may answer to commits?per_page=1 of a repository with n
\* commits: an error, or the first commit with the Link header of n pages.
CommitCountAnswers(n) ==
    {Answer(1, 1, TRUE,  FALSE, "object", <<>>, <<>>, n),
     Answer(1, 1, FALSE, FALSE, "object", <<>>, <<>>, n),
     Answer(1, 1, FALSE, TRUE,  "array",
            IF n = 0 THEN <<>> ELSE PageRecords(1, 1), LinkHeader(n, 1, 1), n)}

\* What the server may answer to the pulls and to the issues request.
ListingAnswers(resps) ==
    {Answer(1, 1, TRUE,  FALSE, "object", <<>>, <<>>, 0),
     Answer(1, 1, FALSE, FALSE, "object", <<>>, <<>>, 0)}
    \cup {Answer(1, 1, FALSE, TRUE, "array", d, <<>>, 0) : d \in resps}

\* let page = 1; let hasMore = true
StartPaging ==
    /\ pc = "call"
    /\ fetcher' \in PagingFetchers
    /\ fetchRepo' = 1 /\ page' = 1 /\ hasMore' = TRUE /\ acc' = <<>>
    /\ pc' = "loop"
    /\ UNCHANGED <<clock, events, repoIn, calendar, weekly, report, stats,
                   upstream, ranking, running, requests, result, warnings>>

\* One turn of while (hasMore && page <= cap): the request and what the
\* answer makes of the loop.
RequestPage ==
    /\ pc = "loop"
    /\ LoopContinues(fetcher, page, hasMore)
    /\ \E a \in PageAnswers(fetchRepo, page) :
          /\ requests' = Append(requests, a)
          /\ warnings' = warnings \o PagingWarnings(fetcher, a)
          /\ CASE AfterAnswer(a) = "more" ->
                     /\ acc' = acc \o a.data
                     /\ hasMore' = HasRel(a.link, "next")
                     /\ page' = page + 1
                     /\ pc' = "loop"
                     /\ UNCHANGED result
               [] AfterAnswer(a) = "stop" ->
                     /\ hasMore' = FALSE
                     /\ pc' = "afterLoop"
                     /\ UNCHANGED <<acc, page, result>>
               [] AfterAnswer(a) = "break" ->
                     /\ pc' = "afterLoop"
                     /\ UNCHANGED <<acc, page, hasMore, result>>
               [] AfterAnswer(a) = "caught" ->
                     IF fetcher = "getAllOrgCommits"
                     THEN /\ pc' = "afterLoop"
                          /\ UNCHANGED <<acc, page, hasMore, result>>
                     ELSE /\ result' = <<>>
                          /\ pc' = "returned"
                          /\ UNCHANGED <<acc, page, hasMore>>
    /\ UNCHANGED <<clock, events, repoIn, calendar, weekly, report, stats,
                   upstream, ranking, running, fetcher, fetchRepo>>

\* The loop test fails: hasMore is false or the page limit is passed.
LeaveLoop ==
    /\ pc = "loop"
    /\ ~LoopContinues(fetcher, page, hasMore)
    /\ pc' = "afterLoop"
    /\ UNCHANGED <<clock, events, repoIn, calendar, weekly, report, stats,
                   upstream, ranking, running, paging>>

\* After the loop: getAllOrgCommits goes on with the next repository of
\* for (const repo of repos); at the end the function returns the records.
AfterLoop ==
    /\ pc = "afterLoop"
    /\ IF fetcher = "getAllOrgCommits" /\ fetchRepo < FetchRepos
       THEN /\ fetchRepo' = fetchRepo + 1
            /\ page' = 1 /\ hasMore' = TRUE
            /\ pc' = "loop"
            /\ UNCHANGED result
       ELSE /\ result' = acc
            /\ pc' = "returned"
            /\ UNCHANGED <<fetchRepo, page, hasMore>>
    /\ UNCHANGED <<clock, events, repoIn, calendar, weekly, report, stats,
                   upstream, ranking, running, fetcher, acc, requests,
                   warnings>>

\* const commitCount = await getCommitCount(repo)
CallGetCommitCount ==
    /\ pc = "call"
    /\ \E n \in 0..MaxCommits : \E a \in CommitCountAnswers(n) :
          /\ requests' = <<a>>
          /\ result' = getCommitCount(a)
          /\ warnings' = CommitCountWarnings(a)
    /\ fetcher' = "getCommitCount"
    /\ pc' = "returned"
    /\ UNCHANGED <<clock, events, repoIn, calendar, weekly, report, stats,
                   upstream, ranking, running, fetchRepo, page, hasMore, acc>>

\* const codeFreq = await getCodeFrequency(repo)
CallGetCodeFrequency ==
    /\ pc = "call"
    /\ \E res \in CodeFreqResponses(now, tz) :
          /\ requests' = <<res>>
          /\ result' = getCodeFrequency(res)
          /\ warnings' = CodeFrequencyWarnings(res)
    /\ fetcher' = "getCodeFrequency"
    /\ pc' = "returned"
    /\ UNCHANGED <<clock, events, repoIn, calendar, weekly, report, stats,
                   upstream, ranking, running, fetchRepo, page, hasMore, acc>>

\* const { prs, issues } = await getOrgPRsAndIssues(repos), one repository;
\* the issues request is sent unless reading the pulls answer threw.
CallGetOrgPRsAndIssues ==
    /\ pc = "call"
    /\ \E pa \in ListingAnswers(PullResponses(now)) :
       \E ia \in ListingAnswers(IssueResponses(now)) :
          /\ requests' = IF ReadingThrows(pa) THEN <<pa>> ELSE <<pa, ia>>
          /\ result' = getOrgPRsAndIssues(pa, ia)
          /\ warnings' = PRsAndIssuesWarnings(pa, ia)
    /\ fetcher' = "getOrgPRsAndIssues"
    /\ pc' = "returned"
    /\ UNCHANGED <<clock, events, repoIn, calendar, weekly, report, stats,
                   upstream, ranking, running, fetchRepo, page, hasMore, acc>>

InitFetch == InitAt("call") /\ now = At(2023, 6, 6, 12) /\ tz = 0

NextFetch ==
    \/ StartPaging
    \/ RequestPage
    \/ LeaveLoop
    \/ AfterLoop
    \/ CallGetCommitCount
    \/ CallGetCodeFrequency
    \/ CallGetOrgPRsAndIssues

SpecFetch == InitFetch /\ [][NextFetch]_vars

\* The four capped loops alone.  Every request is awaited and resolves or
\* rejects, and nothing else runs meanwhile: a step that can be taken is
\* taken.
NextPaging ==
    \/ StartPaging
    \/ RequestPage
    \/ LeaveLoop
    \/ AfterLoop

SpecPaging == InitFetch /\ [][NextPaging]_vars /\ WF_vars(NextPaging)

----------------------------------------------------------------------------
(* Specification SpecMain: run() from getRepos() to the last per-repository *)
(* report, with the clock moving on meanwhile.  A date the Date constructor *)
(* cannot interpret gives an Invalid Date, whose time value is NaN: every   *)
(* comparison with it is false and its toISOString() throws a RangeError.   *)

\* The time value of an Invalid Date.
InvalidDate == -1

\* commits.forEach(commit => { const date = new Date(commit.date);
\*     if (date < oneYearAgo) return; const weekKey = getWeekKey(date); ...
\* an Invalid Date passes the test and monday.toISOString() throws.
groupCommitsByWeekThrows(cs) ==
    \E i \in DOMAIN cs : cs[i].date = InvalidDate

\* codeFreq.forEach(item => { const date = new Date(item[0] * 1000); ...
groupCodeFrequencyByWeekThrows(cf) ==
    \E i \in DOMAIN cf : cf[i][1] = InvalidDate

\* new Date(commit.date).toISOString().split('T')[0], of a commit, a PR or
\* an issue
createContributionCalendarThrows(cs, ps, is) ==
    \/ \E i \in DOMAIN cs : cs[i].date = InvalidDate
    \/ \E i \in DOMAIN ps : ps[i].date = InvalidDate
    \/ \E i \in DOMAIN is : is[i].date = InvalidDate

\* Mutant of ReadClock: every call uses the reading of the first call.
ReadClock_OfFirstCall(cs, t) == IF cs = <<>> THEN t ELSE cs[1].at

\* const oneYearAgo = new Date() / const today = new Date(): the instant an
\* aggregator reads when it is called at t, after the calls cs.
ReadClock(cs, t) == t

\* One call of an aggregator: when it was made, the window start it
\* computed and whether it threw.
AggregatorCall(fn, cs, t, z, threw) ==
    [fn |-> fn, at |-> t, oneYearAgo |-> oneYearAgoOf(ReadClock(cs, t), z),
     threw |-> threw]

\* Days the clock may pass during a run.
MaxTicks == 1

RunStart == At(2023, 6, 6, 12)

\* A commit in the first day of the window of a run started at RunStart.
BoundaryDate(z) == oneYearAgoOf(RunStart, z) + 12

RepoLists == {<<>>, <<"r1">>, <<"r1", "r2">>}

MainCommitLists(z) ==
    {<<>>, <<[date |-> BoundaryDate(z)]>>, <<[date |-> InvalidDate]>>}

MainCodeFreqs(t) ==
    {<<>>, << <<SundayOnOrAfter(addDays(t, -6)), 5, -3>> >>,
     << <<InvalidDate, 1, -1>> >>}

OrgCommitLists(z) ==
    {<<>>, <<[date |-> BoundaryDate(z), login |-> "alice"]>>,
     <<[date |-> InvalidDate, login |-> "alice"]>>}

OrgPRLists(t) == {<<>>, <<[date |-> addDays(t, -1), author |-> "bob"]>>}

\* The zone and the clock readings of a run of SpecMain.
MainZones == {0}

MainClocks ==
    {RunStart} \cup {LocalMidnight(LocalDay(RunStart, z) + k, z) :
                        z \in MainZones, k \in 1..MaxTicks}

\* A function f as a table and a sequence s as a tuple: the same values,
\* which TLC then holds evaluated and does not compute again at every use.
Table(f) == f @@ <<>>

Tuple(s) == s \o <<>>

\* What the three aggregators return for the inputs of SpecMain that make
\* them throw nothing, computed once for every input, clock reading and zone.
GroupedCommits ==
    Table([x \in {cs \in UNION {MainCommitLists(z) : z \in MainZones} :
                ~groupCommitsByWeekThrows(cs)} \X MainClocks \X MainZones |->
        Tuple(groupCommitsByWeek(x[1], x[2], x[3]))])

GroupedCodeChanges ==
    Table([x \in {cf \in UNION {MainCodeFreqs(t) : t \in MainClocks} :
                ~groupCodeFrequencyByWeekThrows(cf)} \X MainClocks \X MainZones |->
        Tuple(WeeklyCodeChangesOf(x[1], x[2], x[3]))])

OrgCalendars ==
    Table([x \in {cs \in UNION {OrgCommitLists(z) : z \in MainZones} :
                ~createContributionCalendarThrows(cs, <<>>, <<>>)}
            \X (UNION {OrgPRLists(t) : t \in MainClocks})
            \X MainClocks \X MainZones |->
        Tuple(createContributionCalendar(x[1], x[2], <<>>, x[3], x[4]))])

\* const repos = await getRepos(): if (!res.ok) throw ...; catch: throw error
GetReposThrows ==
    /\ pc = "getRepos"
    /\ pc' = "rejected"
    /\ UNCHANGED <<clock, paging, running, upstream, ranking, events, repoIn,
                   calendar, weekly, report, stats>>

GetReposReturns ==
    /\ pc = "getRepos"
    /\ repos' \in RepoLists
    /\ pc' = "mainLoop"
    /\ UNCHANGED <<clock, paging, upstream, ranking, events, repoIn, calendar,
                   weekly, report, stats, grid, calls, ri, files, attempts>>

\* for (const repo of repos): getCommitCount, getCodeFrequency and
\* getCommitsWithDates; each returns whatever the requests did.
MainFetch ==
    /\ pc = "mainLoop"
    /\ ri <= Len(repos)
    /\ commitsWithDates' \in MainCommitLists(tz)
    /\ codeFreq' \in MainCodeFreqs(now)
    /\ pc' = "group"
    /\ UNCHANGED <<clock, paging, running, upstream, ranking, events, calendar,
                   weekly, report, stats>>

\* The rest of the loop body: the two weekly series and report.push({...}).
\* The body is in no try block: what an aggregator throws rejects run().
MainGroupAndPush ==
    /\ pc = "group"
    /\ IF groupCommitsByWeekThrows(commitsWithDates)
       THEN /\ calls' = Append(calls,
                  AggregatorCall("groupCommitsByWeek", calls, now, tz, TRUE))
            /\ pc' = "rejected"
            /\ UNCHANGED <<weekly, report, ri>>
       ELSE IF Len(codeFreq) > 0 /\ groupCodeFrequencyByWeekThrows(codeFreq)
       THEN /\ calls' = calls \o
                  <<AggregatorCall("groupCommitsByWeek", calls, now, tz, FALSE),
                    AggregatorCall("groupCodeFrequencyByWeek", calls, now, tz,
                                   TRUE)>>
            /\ pc' = "rejected"
            /\ UNCHANGED <<weekly, report, ri>>
       ELSE /\ weeklyCommits' =
                  GroupedCommits[<<commitsWithDates, ReadClock(calls, now), tz>>]
            /\ weeklyCodeChanges' =
                  GroupedCodeChanges[<<codeFreq, ReadClock(calls, now), tz>>]
            /\ report' = Append(report,
                  [repo              |-> repos[ri],
                   additions         |-> SumField(codeFreq, 2),
                   deletions         |-> SumField(codeFreq, 3),
                   weeklyCommits     |-> weeklyCommits',
                   weeklyCodeChanges |-> weeklyCodeChanges'])
            /\ calls' = calls \o
                  <<AggregatorCall("groupCommitsByWeek", calls, now, tz, FALSE)>>
                  \o (IF Len(codeFreq) > 0
                      THEN <<AggregatorCall("groupCodeFrequencyByWeek", calls,
                                            now, tz, FALSE)>>
                      ELSE <<>>)
            /\ ri' = ri + 1
            /\ pc' = "mainLoop"
    /\ UNCHANGED <<clock, paging, upstream, ranking, events, repoIn, calendar,
                   stats, grid, repos, files, attempts>>

\* fs.writeJsonSync("github-report.json"); fs.writeFileSync("report.html");
\* generatePDF(report)
MainWriteReports ==
    /\ pc = "mainLoop"
    /\ ri > Len(repos)
    /\ files' = files \o <<"github-report.json", "report.html", "report.pdf">>
    /\ pc' = "contribution"
    /\ UNCHANGED <<clock, paging, upstream, ranking, events, repoIn, calendar,
                   weekly, report, stats, grid, calls, repos, ri, attempts>>

\* generateContributionReport: getOrgMembers, getAllOrgCommits and
\* getOrgPRsAndIssues; no repository, no event.
MainGetOrgData ==
    /\ pc = "contribution"
    /\ commits' \in IF repos = <<>> THEN {<<>>} ELSE OrgCommitLists(tz)
    /\ prs' \in IF repos = <<>> THEN {<<>>} ELSE OrgPRLists(now)
    /\ issues' = <<>>
    /\ pc' = "createCalendar"
    /\ UNCHANGED <<clock, paging, running, upstream, ranking, repoIn, calendar,
                   weekly, report, stats>>

\* createContributionCalendar(commits, prs, issues), the stats and the two
\* files of the organization report; nothing catches what the calendar
\* throws.
MainCreateCalendar ==
    /\ pc = "createCalendar"
    /\ IF createContributionCalendarThrows(commits, prs, issues)
       THEN /\ calls' = Append(calls,
                  AggregatorCall("createContributionCalendar", calls, now, tz,
                                 TRUE))
            /\ pc' = "rejected"
            /\ UNCHANGED <<calendar, stats, files, ri>>
       ELSE /\ calendar' =
                  OrgCalendars[<<commits, prs, ReadClock(calls, now), tz>>]
            /\ stats' = StatsOf(commits, prs, issues)
            /\ files' = files \o <<"contribution-report.json",
                                   "blockchainsuperheroes_contribution-report.html">>
            /\ calls' = Append(calls,
                  AggregatorCall("createContributionCalendar", calls, now, tz,
                                 FALSE))
            /\ ri' = 1
            /\ pc' = "repoReports"
    /\ UNCHANGED <<clock, paging, upstream, ranking, events, repoIn, weekly,
                   report, grid, repos, attempts>>

\* The second loop over repos: try { the commits, the PRs and issues,
\* generateRepoContributionReport } catch { console.warn }.  The report's
\* calendar throws for an Invalid Date and the catch goes on with the next
\* repository.
MainRepoReport ==
    /\ pc = "repoReports"
    /\ ri <= Len(repos)
    /\ attempts' = Append(attempts, repos[ri])
    /\ \E cs \in OrgCommitLists(tz) :
          /\ calls' = Append(calls,
                AggregatorCall("createContributionCalendar", calls, now, tz,
                               createContributionCalendarThrows(cs, <<>>, <<>>)))
          /\ files' = IF createContributionCalendarThrows(cs, <<>>, <<>>)
                      THEN files
                      ELSE Append(files, repos[ri])
    /\ ri' = ri + 1
    /\ UNCHANGED <<clock, paging, upstream, ranking, events, repoIn, calendar,
                   weekly, report, stats, grid, repos, pc>>

\* console.log("All reports generated successfully!")
MainDone ==
    /\ pc = "repoReports"
    /\ ri > Len(repos)
    /\ pc' = "done"
    /\ UNCHANGED <<clock, paging, running, upstream, ranking, events, repoIn,
                   calendar, weekly, report, stats>>

\* Midnight passes while the run awaits a request.
Tick ==
    /\ pc \in {"mainLoop", "group", "contribution", "createCalendar",
               "repoReports"}
    /\ LocalDay(now, tz) < LocalDay(RunStart, tz) + MaxTicks
    /\ now' = LocalMidnight(LocalDay(now, tz) + 1, tz)
    /\ UNCHANGED <<tz, paging, running, upstream, ranking, events, repoIn,
                   calendar, weekly, report, stats, pc>>

InitMain == InitAt("getRepos") /\ now = RunStart /\ tz \in MainZones

NextMain ==
    \/ GetReposThrows
    \/ GetReposReturns
    \/ MainFetch
    \/ MainGroupAndPush
    \/ MainWriteReports
    \/ MainGetOrgData
    \/ MainCreateCalendar
    \/ MainRepoReport
    \/ MainDone
    \/ Tick

SpecMain == InitMain /\ [][NextMain]_vars

\* run() awaits every step and every request resolves or rejects: a step of
\* the run that can be taken is taken.
SpecMainLive == SpecMain /\ WF_vars(NextMain)

----------------------------------------------------------------------------
(* generateCalendarHTML: the grid of 53 weeks of 7 days that the report     *)
(* draws the calendar in, and specification SpecGrid, which builds a        *)
(* calendar and draws it.                                                   *)

GridWeeks == 53
DaysPerWeek == 7

\* const firstMonday = new Date(oneYearAgo); const day = getDay();
\* const diff = getDate() - day + (day === 0 ? -6 : 1);
\* firstMonday.setDate(diff); firstMonday.setHours(0, 0, 0, 0)
\* with oneYearAgo = new Date() moved one year back
firstMondayOf(t, z) ==
    LET oneYearAgo == setFullYearMinus1(t, z)
        day        == getDay(oneYearAgo, z)
    IN  setHours0(addDays(oneYearAgo, (IF day = 0 THEN -6 ELSE 1) - day), z)

\* calendar.find(c => c.date === dateKey): the place of the first bucket
\* with the key, 0 when there is none.
FindBucket(cal, dateKey) ==
    IF dateKey \in {cal[i].date : i \in DOMAIN cal}
    THEN CHOOSE i \in DOMAIN cal :
            /\ cal[i].date = dateKey
            /\ \A j \in 1..(i - 1) : cal[j].date # dateKey
    ELSE 0

\* The cells of the grid in the order they are drawn, week by week: the
\* bucket found for the cell's date, or { date, count: 0, level: 0 }, and
\* whether the cell is drawn (new Date(day.date) <= today) or left blank.
generateCalendarHTML(cal, t, z) ==
    LET firstMonday == firstMondayOf(t, z)
        today       == setHours0(t, z)
    IN  [c \in 1..(GridWeeks * DaysPerWeek) |->
            LET dateKey == toISODate(addDays(firstMonday, c - 1))
                found   == FindBucket(cal, dateKey)
            IN  [date  |-> dateKey,
                 count |-> IF found = 0 THEN 0 ELSE cal[found].count,
                 level |-> IF found = 0 THEN 0 ELSE cal[found].level,
                 drawn |-> parseISODate(dateKey) <= today]]

\* Events of a drawn calendar.
MaxGridEvents == 1

YieldGridEvent ==
    /\ pc = "fetch"
    /\ Len(commits) < MaxGridEvents
    /\ \E c \in CommitChoices(now, tz) : commits' = Append(commits, c)
    /\ UNCHANGED <<clock, paging, running, upstream, ranking, prs, issues,
                   repoIn, calendar, weekly, report, stats, pc>>

\* ${generateCalendarHTML(calendar)}
CallGenerateCalendarHTML ==
    /\ pc = "calendar"
    /\ grid' = Tuple(generateCalendarHTML(calendar, now, tz))
    /\ pc' = "rendered"
    /\ UNCHANGED <<clock, paging, upstream, ranking, events, repoIn, calendar,
                   weekly, report, stats, calls, repos, ri, files, attempts>>

InitGrid == InitAt("fetch")

NextGrid ==
    \/ YieldGridEvent
    \/ CallCreateContributionCalendar
    \/ CallGenerateCalendarHTML

SpecGrid == InitGrid /\ [][NextGrid]_vars

----------------------------------------------------------------------------
(* Vocabulary of the properties.                                            *)

\* Day number of a date key.
DayNo(k) == parseISODate(k) \div HoursPerDay

\* Day of the week of a date key, Sunday = 0.
WeekdayOfKey(k) == (DayNo(k) + 4) % 7

IsLeapYear(y) == (y % 4 = 0 /\ y % 100 # 0) \/ y % 400 = 0

\* A 29 February lies strictly between the local date of t and the same
\* date one year earlier.
LeapDayInside(t, z) ==
    LET c  == CivilFromDays(LocalDay(t, z))
        lo == DaysFromCivil(c[1] - 1, c[2], c[3])
        hi == LocalDay(t, z)
    IN  \E y \in {c[1] - 1, c[1]} :
           /\ IsLeapYear(y)
           /\ lo < DaysFromCivil(y, 2, 29)
           /\ DaysFromCivil(y, 2, 29) < hi

\* Number of events of a list whose UTC calendar day has key k.
CountOn(evs, k) == Cardinality({i \in DOMAIN evs : toISODate(evs[i].date) = k})

\* The largest day count of a calendar, at least 1.
MaxOfCounts(cal) ==
    LET cs == {cal[i].count : i \in DOMAIN cal} \cup {1}
    IN  CHOOSE m \in cs : \A c \in cs : c <= m

CalendarDone == pc = "calendar"

----------------------------------------------------------------------------
----------------------------------------------------------------------------
(* C2: the DayBucket sequence is in strictly ascending date order, covers   *)
(* consecutive calendar days, one bucket each, and ends at the current day. *)
C2_ConsecutiveThroughToday ==
    CalendarDone =>
        /\ Len(calendar) > 0
        /\ \A i \in 1..(Len(calendar) - 1) :
              DayNo(calendar[i + 1].date) = DayNo(calendar[i].date) + 1
        /\ calendar[Len(calendar)].date = toISODate(now)

----------------------------------------------------------------------------
----------------------------------------------------------------------------
(* C4: with maxCount the largest count (at least 1), a bucket has level 0   *)
(* when its count is 0, 1 up to a quarter of maxCount, 2 up to a half, 3 up *)
(* to three quarters, 4 above; a count on a threshold gets the lower level; *)
(* the level is non-decreasing in the count.                                *)
C4_Levels ==
    CalendarDone =>
        LET m     == MaxOfCounts(calendar)
            pairs == {<<calendar[i].count, calendar[i].level>> : i \in DOMAIN calendar}
        IN  /\ \A p \in pairs :
                  /\ p[2] \in 0..4
                  /\ (p[2] = 0) <=> (p[1] = 0)
                  /\ (p[2] = 1) <=> (0 < p[1] /\ 4 * p[1] <= m)
                  /\ (p[2] = 2) <=> (m < 4 * p[1] /\ 2 * p[1] <= m)
                  /\ (p[2] = 3) <=> (m < 2 * p[1] /\ 4 * p[1] <= 3 * m)
                  /\ (p[2] = 4) <=> (3 * m < 4 * p[1])
            /\ \A p, q \in pairs : p[1] <= q[1] => p[2] <= q[2]

\* A count exactly on the first threshold, beside the largest count.
C4_Witness ==
    /\ CalendarDone
    /\ LET pairs == {<<calendar[i].count, calendar[i].level>> : i \in DOMAIN calendar}
       IN  \E p, q \in pairs : p[2] = 1 /\ 4 * p[1] = q[1] /\ q[2] = 4

----------------------------------------------------------------------------
(* C5: an event dated on a day before the first day of the window changes   *)
(* no bucket of the calendar nor of either weekly series: each output is    *)
(* what it is without the event.                                            *)
PreWindow(date) == toISODate(date) < toISODate(oneYearAgoOf(now, tz))

InWindowOnly(evs) == SelectSeq(evs, LAMBDA e : ~PreWindow(e.date))

AsCommitsWithDates(evs) == [i \in DOMAIN evs |-> [date |-> evs[i].date]]

AsCodeFreq(evs) == [i \in DOMAIN evs |-> <<evs[i].date, 3, -1>>]

----------------------------------------------------------------------------
(* Vocabulary of the weekly properties.                                     *)

\* Number of Mondays among the local days from the day one year back
\* through the current day.
MondaysInWindow(t, z) ==
    Cardinality({n \in LocalDay(oneYearAgoOf(t, z), z)..LocalDay(t, z) :
                    (n + 4) % 7 = 1})

\* A weekly series with one bucket per Monday of the window, ascending, each
\* bucket 7 days after the one before.
DenseWeeks(series) ==
    /\ Len(series) = MondaysInWindow(now, tz)
    /\ \A i \in 1..(Len(series) - 1) :
          DayNo(series[i + 1].week) = DayNo(series[i].week) + 7

\* A date inside the window: from the start of the day one year back to now.
InWindow(date) == oneYearAgoOf(now, tz) <= date /\ date <= now

\* Sum of column k over the rows of cf that satisfy Keep.
SumWhere(cf, k, Keep(_)) == SumField(SelectSeq(cf, Keep), k)

WeeklyDone == pc = "weekly"

----------------------------------------------------------------------------
(* C6: each weekly series has exactly one bucket per Monday-aligned week of *)
(* the trailing window: as many buckets as the window has Mondays, sorted   *)
(* ascending, consecutive buckets 7 days apart, weeks without data (the     *)
(* current week too) present with zero values.                              *)
C6_DenseWeeklySeries ==
    WeeklyDone => DenseWeeks(weeklyCommits) /\ DenseWeeks(weeklyCodeChanges)

----------------------------------------------------------------------------
(* C7: with empty data (no commits, PRs, issues; no code frequency, for any *)
(* of the reasons upstream gives none) the aggregates handed to rendering   *)
(* hold every day bucket with count 0 and level 0, every week bucket of     *)
(* both weekly series with zero values, and totalContributions = 0; the     *)
(* code-change series is the zero-filled series, not an empty sequence.     *)
C7_EmptyDataZeroFilled ==
    (/\ pc = "assembled"
     /\ commits = <<>> /\ prs = <<>> /\ issues = <<>>
     /\ commitsWithDates = <<>> /\ codeFreq = <<>>) =>
        /\ Len(calendar) > 0
        /\ \A i \in DOMAIN calendar :
              calendar[i].count = 0 /\ calendar[i].level = 0
        /\ stats.totalContributions = 0
        /\ Len(report[1].weeklyCommits) > 0
        /\ \A i \in DOMAIN report[1].weeklyCommits :
              report[1].weeklyCommits[i].count = 0
        /\ Len(report[1].weeklyCodeChanges) = Len(report[1].weeklyCommits)
        /\ \A i \in DOMAIN report[1].weeklyCodeChanges :
              /\ report[1].weeklyCodeChanges[i].week = report[1].weeklyCommits[i].week
              /\ report[1].weeklyCodeChanges[i].additions = 0
              /\ report[1].weeklyCodeChanges[i].deletions = 0

----------------------------------------------------------------------------
(* C8: each bucket of groupCommitsByWeek counts the commits dated inside    *)
(* the window whose week is the bucket's week, and every commit dated       *)
(* inside the window, one in the week of the window start too, is counted   *)
(* in exactly one bucket; the counts sum to the number of in-window commits.*)
C8_CommitsCountedOnce ==
    (pc \in {"commitsGrouped", "weekly"}) =>
        /\ \A i \in DOMAIN weeklyCommits :
              weeklyCommits[i].count =
                 Cardinality({c \in DOMAIN commitsWithDates :
                    /\ InWindow(commitsWithDates[c].date)
                    /\ getWeekKey(commitsWithDates[c].date, tz) = weeklyCommits[i].week})
        /\ \A c \in DOMAIN commitsWithDates :
              InWindow(commitsWithDates[c].date) =>
                 Cardinality({i \in DOMAIN weeklyCommits :
                    weeklyCommits[i].week = getWeekKey(commitsWithDates[c].date, tz)}) = 1

----------------------------------------------------------------------------
(* C9: getWeekKey(d) is the Monday of d's week: a Monday, not after d, at   *)
(* most 6 days before d; so every key of both weekly series is a Monday.    *)
C9_WeekKeyIsMonday ==
    WeeklyDone =>
        /\ \A c \in DOMAIN commitsWithDates :
              LET d == commitsWithDates[c].date
                  k == getWeekKey(d, tz)
              IN  /\ WeekdayOfKey(k) = 1
                  /\ DayNo(k) <= d \div HoursPerDay
                  /\ DayNo(k) >= (d \div HoursPerDay) - 6
        /\ \A i \in DOMAIN weeklyCommits : WeekdayOfKey(weeklyCommits[i].week) = 1
        /\ \A i \in DOMAIN weeklyCodeChanges :
              WeekdayOfKey(weeklyCodeChanges[i].week) = 1

----------------------------------------------------------------------------
(* C10: each bucket of groupCodeFrequencyByWeek holds the sum of the        *)
(* additions and the sum of the deletions of the in-window rows whose       *)
(* timestamp falls in the bucket's week; every in-window row is in exactly  *)
(* one bucket; both fields are >= 0.                                        *)
C10_CodeFrequencySummed ==
    WeeklyDone =>
        /\ \A i \in DOMAIN weeklyCodeChanges :
              LET InBucket(row) == /\ InWindow(row[1])
                                   /\ getWeekKey(row[1], tz) = weeklyCodeChanges[i].week
              IN  /\ weeklyCodeChanges[i].additions = SumWhere(codeFreq, 2, InBucket)
                  /\ weeklyCodeChanges[i].deletions = SumWhere(codeFreq, 3, InBucket)
                  /\ weeklyCodeChanges[i].additions >= 0
                  /\ weeklyCodeChanges[i].deletions >= 0
        /\ \A r \in DOMAIN codeFreq :
              InWindow(codeFreq[r][1]) =>
                 Cardinality({i \in DOMAIN weeklyCodeChanges :
                    weeklyCodeChanges[i].week = getWeekKey(codeFreq[r][1], tz)}) = 1

----------------------------------------------------------------------------
(* Vocabulary of the ranking properties.                                    *)

RankedDone == pc = "ranked"

\* Place of the record of login a in the contributor Map, 0 when absent.
PlaceInMap(a) ==
    IndexOfKey([j \in DOMAIN memberContributions |-> memberContributions[j].login], a)

\* Number of commit events with login a; of PR or issue events authored by a.
CommitsBy(a) == Cardinality({k \in DOMAIN commits : commits[k].login = a})

AuthoredBy(evs, a) == Cardinality({k \in DOMAIN evs : evs[k].author = a})

TotalFormula(r) == r.total = r.commits + 2 * r.prs + r.issues

----------------------------------------------------------------------------
(* C11: every contributor record has total = commits + 2*prs + issues, in   *)
(* the organisation ranker and in the per-repository ranker, after every    *)
(* processed event and in the ranked output.                                *)
C11_TotalIsWeightedSum ==
    /\ \A i \in DOMAIN memberContributions : TotalFormula(memberContributions[i])
    /\ \A i \in DOMAIN topContributors : TotalFormula(topContributors[i])

\* Midway through the issues of a repository, a record that has a PR.
C11_Witness ==
    /\ pc = "rankIssues"
    /\ ranker = "repo"
    /\ \E i \in DOMAIN memberContributions :
          /\ memberContributions[i].prs = 1
          /\ memberContributions[i].total = 2

----------------------------------------------------------------------------
(* C12: an event whose upstream record names no user contributes to no      *)
(* contributor record: a record's prs and issues count only upstream        *)
(* records that name the record's login as user.                            *)
C12_UnknownActorDropped ==
    \A i \in DOMAIN memberContributions :
       LET r == memberContributions[i]
       IN  /\ r.prs <= Cardinality({k \in DOMAIN pullResponse :
                          pullResponse[k].user = r.login})
           /\ r.issues <= Cardinality({k \in DOMAIN issueResponse :
                          /\ issueResponse[k].user = r.login
                          /\ ~issueResponse[k].pull_request})

----------------------------------------------------------------------------
(* C13: a commit without a login creates and changes no contributor record  *)
(* but is counted in stats.totalCommits and stats.totalContributions and,   *)
(* when its day has a bucket, adds 1 to that bucket's count.                *)
C13_CommitWithoutLogin ==
    /\ [][(pc = "rankCommits" /\ commits[idx].login = NoLogin)
             => memberContributions' = memberContributions]_vars
    /\ [](RankedDone =>
            /\ \A i \in DOMAIN memberContributions :
                  /\ memberContributions[i].login # NoLogin
                  /\ memberContributions[i].commits
                        = CommitsBy(memberContributions[i].login)
            /\ stats.totalCommits = Len(commits)
            /\ stats.totalContributions = Len(commits) + 2 * Len(prs) + Len(issues)
            /\ \A c \in DOMAIN commits : \A i \in DOMAIN calendar :
                  (commits[c].login = NoLogin
                     /\ calendar[i].date = toISODate(commits[c].date)) =>
                  calendar[i].count = CountOn(commits, calendar[i].date)
                                    + 2 * CountOn(prs, calendar[i].date)
                                    + CountOn(issues, calendar[i].date))

\* A commit without login beside one with a login, on a day of the calendar.
C13_Witness ==
    /\ RankedDone
    /\ \E c \in DOMAIN commits, i \in DOMAIN calendar :
          /\ commits[c].login = NoLogin
          /\ calendar[i].date = toISODate(commits[c].date)
          /\ calendar[i].count >= 2
    /\ stats.totalCommits = 3
    /\ \E i \in DOMAIN memberContributions : memberContributions[i].commits = 1

----------------------------------------------------------------------------
(* C14: the ranked list is in descending order of total; records of equal   *)
(* total keep the order in which their identities were first encountered:   *)
(* members in list order, then commit authors, PR authors, issue authors.   *)
FirstEncountered ==
    KeysInInsertionOrder(
        [i \in DOMAIN members |-> members[i].login]
        \o SelectSeq([i \in DOMAIN commits |-> commits[i].login],
                     LAMBDA l : l # NoLogin)
        \o [i \in DOMAIN prs |-> prs[i].author]
        \o [i \in DOMAIN issues |-> issues[i].author])

C14_RankedStable ==
    RankedDone =>
        /\ [i \in DOMAIN memberContributions |-> memberContributions[i].login]
              = FirstEncountered
        /\ \A p, q \in DOMAIN topContributors :
              p < q =>
                 /\ topContributors[p].total >= topContributors[q].total
                 /\ topContributors[p].total = topContributors[q].total =>
                       PlaceInMap(topContributors[p].login)
                          < PlaceInMap(topContributors[q].login)

\* Two records tie above zero, behind a record encountered after them.
C14_Witness ==
    /\ RankedDone
    /\ \E p, q, r \in DOMAIN topContributors :
          /\ p < q /\ q < r
          /\ topContributors[p].total > topContributors[q].total
          /\ topContributors[q].total = topContributors[r].total
          /\ topContributors[r].total > 0
          /\ PlaceInMap(topContributors[p].login)
                > PlaceInMap(topContributors[r].login)

----------------------------------------------------------------------------
(* C15: every seed member without activity appears in the ranked output     *)
(* with commits = prs = issues = total = 0, after every record of total > 0.*)
(* The statement as claimed:                                                *)
IsZeroRecord(r) == r.commits = 0 /\ r.prs = 0 /\ r.issues = 0 /\ r.total = 0

InactiveMember(a) ==
    /\ \E m \in DOMAIN members : members[m].login = a
    /\ CommitsBy(a) = 0 /\ AuthoredBy(prs, a) = 0 /\ AuthoredBy(issues, a) = 0

C15_InactiveMembersListed ==
    (RankedDone /\ ranker = "org") =>
        \A m \in DOMAIN members :
           InactiveMember(members[m].login) =>
              \E p \in DOMAIN topContributors :
                 /\ topContributors[p].login = members[m].login
                 /\ IsZeroRecord(topContributors[p])
                 /\ \A q \in DOMAIN topContributors :
                       topContributors[q].total > 0 => q < p

\* C15, amended: every seed member without activity has an all-zero record
\* in the contributor Map; it is in the ranked output, after every record of
\* total > 0, exactly when fewer than 20 records come before it: those of
\* total > 0 and the all-zero ones set into the Map earlier.
RankedAhead(a) ==
    Cardinality({j \in DOMAIN memberContributions :
                    \/ memberContributions[j].total > 0
                    \/ j < PlaceInMap(a)})

C15_InactiveMembersWithinCap ==
    (RankedDone /\ ranker = "org") =>
        \A m \in DOMAIN members :
           LET a == members[m].login
           IN  InactiveMember(a) =>
                  /\ PlaceInMap(a) > 0
                  /\ IsZeroRecord(memberContributions[PlaceInMap(a)])
                  /\ (RankedAhead(a) < TopOrgContributors)
                        <=> (\E p \in DOMAIN topContributors :
                                topContributors[p].login = a)
                  /\ \A p, q \in DOMAIN topContributors :
                        (topContributors[p].login = a
                           /\ topContributors[q].total > 0) =>
                           /\ q < p
                           /\ IsZeroRecord(topContributors[p])

\* More members than the report shows, and a contributor ahead of them.
C15_Witness ==
    /\ RankedDone /\ ranker = "org"
    /\ Len(memberContributions) > TopOrgContributors
    /\ topContributors[1].total > 0
    /\ \E m \in DOMAIN members :
          /\ InactiveMember(members[m].login)
          /\ \A p \in DOMAIN topContributors :
                topContributors[p].login # members[m].login

----------------------------------------------------------------------------
(* C16: the record of an actor a counts the commit events with login a, the *)
(* PR events and the issue events authored by a, whatever their dates; an   *)
(* actor outside the seed set gets its record on its first event; one PR    *)
(* and one issue by one actor, alone on a day of the calendar, give         *)
(* prs = 1, issues = 1, total = 3 and that day's bucket count = 3.          *)
Actors ==
    {members[i].login : i \in DOMAIN members}
      \cup ({commits[i].login : i \in DOMAIN commits} \ {NoLogin})
      \cup {prs[i].author : i \in DOMAIN prs}
      \cup {issues[i].author : i \in DOMAIN issues}

C16_RecordsCountEvents ==
    RankedDone =>
        /\ {memberContributions[i].login : i \in DOMAIN memberContributions}
              = Actors
        /\ \A i \in DOMAIN memberContributions :
              LET r == memberContributions[i]
              IN  /\ r.commits = CommitsBy(r.login)
                  /\ r.prs = AuthoredBy(prs, r.login)
                  /\ r.issues = AuthoredBy(issues, r.login)
        /\ \A p \in DOMAIN prs, s \in DOMAIN issues, i \in DOMAIN calendar :
              (/\ prs[p].author = issues[s].author
               /\ toISODate(prs[p].date) = calendar[i].date
               /\ toISODate(issues[s].date) = calendar[i].date
               /\ CountOn(commits, calendar[i].date) = 0
               /\ CountOn(prs, calendar[i].date) = 1
               /\ CountOn(issues, calendar[i].date) = 1
               /\ CommitsBy(prs[p].author) = 0
               /\ AuthoredBy(prs, prs[p].author) = 1
               /\ AuthoredBy(issues, prs[p].author) = 1) =>
                 /\ calendar[i].count = 3
                 /\ LET r == memberContributions[PlaceInMap(prs[p].author)]
                    IN  r.prs = 1 /\ r.issues = 1 /\ r.total = 3

\* One PR and one issue by an actor outside the seed set, on one day.
C16_Witness ==
    /\ RankedDone
    /\ ranker = "repo"
    /\ commits = <<>>
    /\ \E i \in DOMAIN calendar : calendar[i].count = 3
    /\ \E j \in DOMAIN topContributors :
          /\ topContributors[j].prs = 1
          /\ topContributors[j].issues = 1
          /\ topContributors[j].total = 3

----------------------------------------------------------------------------
(* C17: in the assembled summary of the organisation and of a repository,   *)
(* stats.totalContributions = totalCommits + 2*totalPRs + totalIssues, the  *)
(* three totals being the lengths of the commit, PR and issue lists.        *)
StatsAssembled ==
    \/ ranker = "org" /\ pc \in {"seed", "rankCommits", "rankPRs",
                                  "rankIssues", "rankSort", "ranked"}
    \/ ranker = "repo" /\ RankedDone

C17_StatsTotals ==
    StatsAssembled =>
        /\ stats.totalCommits = Len(commits)
        /\ stats.totalPRs = Len(prs)
        /\ stats.totalIssues = Len(issues)
        /\ stats.totalContributions
              = stats.totalCommits + 2 * stats.totalPRs + stats.totalIssues

C17_Witness ==
    /\ StatsAssembled
    /\ ranker = "org"
    /\ stats.totalCommits = 3 /\ stats.totalPRs = 2 /\ stats.totalIssues = 1
    /\ stats.totalContributions = 8

----------------------------------------------------------------------------
----------------------------------------------------------------------------
(* C19: the outputs of the three aggregators do not depend on the order of  *)
(* their input lists: after the lists are permuted the aggregators return   *)
(* the same bucket sequences, keys, order and values.                       *)
C19_OrderIndependent ==
    [][(pc = "reordered" /\ pc' = "againReordered") =>
          /\ calendar' = calendar
          /\ weeklyCommits' = weeklyCommits
          /\ weeklyCodeChanges' = weeklyCodeChanges]_vars

\* A run over commits delivered latest first, of two different weeks that
\* both get a bucket.
C19_Witness ==
    /\ pc = "againReordered"
    /\ Len(commitsWithDates) = 2
    /\ commitsWithDates[1].date > commitsWithDates[2].date
    /\ Cardinality({i \in DOMAIN weeklyCommits : weeklyCommits[i].count = 1}) = 2

----------------------------------------------------------------------------
(* C20: no record that the issues endpoint flags as a pull request is in    *)
(* the issue list: the issues are, in order, the records without the flag,  *)
(* so a pull request is never counted as an issue as well.                  *)
Unflagged == {k \in DOMAIN issueResponse : ~issueResponse[k].pull_request}

C20_PullRequestsNotIssues ==
    /\ Len(issues) = Cardinality(Unflagged)
    /\ \A i \in DOMAIN issues :
          \E k \in Unflagged :
             /\ Cardinality({j \in Unflagged : j <= k}) = i
             /\ issues[i].date = issueResponse[k].created_at
             /\ issues[i].author \in {issueResponse[k].user, "unknown"}

\* The endpoint listed a pull request beside an issue.
C20_Witness ==
    /\ pc = "createCalendar"
    /\ \E k \in DOMAIN issueResponse : issueResponse[k].pull_request
    /\ Len(issues) = 1
    /\ Len(prs) = 2

----------------------------------------------------------------------------
(* C21: the count getCommitCount returns for a repository with n >= 0       *)
(* commits, when its request succeeded, is n.                               *)
CommitCountReturned == pc = "returned" /\ fetcher = "getCommitCount"

C21_CommitCountIsN ==
    (CommitCountReturned /\ ~requests[1].throws /\ requests[1].ok)
        => result = requests[1].total

----------------------------------------------------------------------------
(* C22: a call of a data-source function in which a request failed does    *)
(* not leave its caller with what a call that found no records leaves: the  *)
(* same return value with nothing written to the console.                   *)
FailureSignalFetchers ==
    {"getCommitsWithDates", "getAllOrgCommits", "getOrgPRsAndIssues",
     "getCodeFrequency", "getCommitCount"}

\* The request was rejected or answered with an HTTP error status.
RequestFailed(a) ==
    IF fetcher = "getCodeFrequency" THEN a.throws \/ a.status >= 400
    ELSE a.throws \/ ~a.ok

\* What the function returns when every request succeeds with no records.
ResultOfNoRecords(fn) ==
    CASE fn = "getCommitCount"     -> 0
      [] fn = "getOrgPRsAndIssues" -> [prs |-> <<>>, issues |-> <<>>]
      [] OTHER                     -> <<>>

C22_FailureDistinguishable ==
    (/\ pc = "returned"
     /\ fetcher \in FailureSignalFetchers
     /\ \E i \in DOMAIN requests : RequestFailed(requests[i]))
        => ~(result = ResultOfNoRecords(fetcher) /\ warnings = <<>>)

----------------------------------------------------------------------------
(* C28: every capped pagination loop ends; it asks for the pages 1, 2, 3,   *)
(* ... of a repository in turn, never beyond its limit (10, 5 per           *)
(* repository, 20, 10); it asks for a further page only after a page of     *)
(* records whose answer carried rel="next"; and what it returns is the      *)
(* records of the pages it read, in page order (nothing when a request or   *)
(* the reading of its body threw, but for getAllOrgCommits, which keeps the *)
(* pages read).                                                             *)
RECURSIVE PagesRead(_, _)
PagesRead(reqs, i) ==
    IF i > Len(reqs) THEN <<>>
    ELSE (IF AfterAnswer(reqs[i]) = "more" THEN reqs[i].data ELSE <<>>)
         \o PagesRead(reqs, i + 1)

PagingCalled == fetcher \in PagingFetchers

PagesInOrder ==
    \A i \in DOMAIN requests :
       /\ requests[i].page =
             Cardinality({j \in 1..i : requests[j].repo = requests[i].repo})
       /\ requests[i].page <= PageCap(fetcher)
       /\ \A j \in DOMAIN requests :
             (j > i /\ requests[j].repo = requests[i].repo)
                => /\ AfterAnswer(requests[i]) = "more"
                   /\ HasRel(requests[i].link, "next")

ReturnsPagesRead ==
    pc = "returned" =>
       result = IF /\ fetcher # "getAllOrgCommits"
                   /\ AfterAnswer(requests[Len(requests)]) = "caught"
                THEN <<>>
                ELSE PagesRead(requests, 1)

C28_CappedPagingEnds ==
    /\ [](PagingCalled => (PagesInOrder /\ ReturnsPagesRead))
    /\ <>(pc = "returned")

\* getRepoCommitsForContribution was stopped by its limit of 20 pages, every
\* answer having announced a next page.
C28_Witness ==
    /\ pc = "returned"
    /\ fetcher = "getRepoCommitsForContribution"
    /\ Len(requests) = RepoCommitsPages
    /\ HasRel(requests[Len(requests)].link, "next")
    /\ Len(result) = RepoCommitsPages

----------------------------------------------------------------------------
(* C23: a record whose date cannot be interpreted makes no aggregator fail  *)
(* and does not abort the run: no call of groupCommitsByWeek,               *)
(* groupCodeFrequencyByWeek or createContributionCalendar throws, and run() *)
(* is rejected by nothing but getRepos().                                   *)
C23_MalformedRecordDropped ==
    /\ \A i \in DOMAIN calls : ~calls[i].threw
    /\ pc = "rejected" => calls = <<>>

----------------------------------------------------------------------------
(* C24: every aggregator call computes its window from the clock as it      *)
(* stands at the call: the window start of a call is one year before the    *)
(* local day of the call, two calls of one run made on different days have  *)
(* different window starts, and the organization calendar begins at the     *)
(* window start of its own call.                                            *)
OrgCalendarCalls ==
    {i \in DOMAIN calls : /\ calls[i].fn = "createContributionCalendar"
                          /\ ~calls[i].threw
                          /\ \A j \in 1..(i - 1) :
                                calls[j].fn # "createContributionCalendar"}

C24_EachCallReadsClock ==
    /\ \A i \in DOMAIN calls :
          calls[i].oneYearAgo = oneYearAgoOf(calls[i].at, tz)
    /\ \A i, j \in DOMAIN calls :
          LocalDay(calls[i].at, tz) # LocalDay(calls[j].at, tz)
             => calls[i].oneYearAgo # calls[j].oneYearAgo
    /\ \A i \in OrgCalendarCalls :
          calendar # <<>> =>
             calendar[1].date = toISODate(oneYearAgoOf(calls[i].at, tz))

\* Midnight passed between groupCommitsByWeek and createContributionCalendar:
\* the commit of the first day of the earlier window is counted in a week
\* bucket and in no day bucket.
C24_Witness ==
    /\ pc = "repoReports"
    /\ \E i, j \in DOMAIN calls :
          /\ calls[i].fn = "groupCommitsByWeek"
          /\ calls[j].fn = "createContributionCalendar"
          /\ calls[i].oneYearAgo < calls[j].oneYearAgo
    /\ commitsWithDates = <<[date |-> BoundaryDate(tz)]>>
    /\ commits = <<[date |-> BoundaryDate(tz), login |-> "alice"]>>
    /\ prs = <<>>
    /\ \E w \in DOMAIN weeklyCommits : weeklyCommits[w].count = 1
    /\ \A d \in DOMAIN calendar : calendar[d].count = 0

----------------------------------------------------------------------------
(* C29: once getRepos() has returned, the run goes on to its end whatever   *)
(* fails for a repository: every repository of the list gets its entry of   *)
(* the main report and its contribution-report attempt, in list order; and  *)
(* the run is rejected by a failure of getRepos() only, with no file        *)
(* written.                                                                 *)
ReposReported == [i \in DOMAIN report |-> report[i].repo]

C29_EveryRepositoryHandled ==
    /\ [](pc = "rejected" => (calls = <<>> /\ files = <<>>))
    /\ (pc = "mainLoop") ~>
          (pc = "done" /\ ReposReported = repos /\ attempts = repos)

----------------------------------------------------------------------------
(* C25: the ranked list holds min(cap, number of records) records of the    *)
(* contributor Map, cap being 20 for the organization and 10 for a          *)
(* repository, each at most once and in descending order of total; no       *)
(* record left out has a total greater than that of a listed record; the    *)
(* Map itself keeps a record for every actor, and totalContributors of a    *)
(* repository counts them all.                                              *)
RankCap == IF ranker = "org" THEN TopOrgContributors ELSE TopRepoContributors

Listed == {topContributors[i].login : i \in DOMAIN topContributors}

LeftOut == {k \in DOMAIN memberContributions :
               memberContributions[k].login \notin Listed}

C25_RankedListIsCappedPrefix ==
    RankedDone =>
        /\ Len(topContributors) =
              IF Len(memberContributions) < RankCap
              THEN Len(memberContributions) ELSE RankCap
        /\ Cardinality(Listed) = Len(topContributors)
        /\ \A i \in DOMAIN topContributors :
              /\ PlaceInMap(topContributors[i].login) > 0
              /\ topContributors[i] =
                    memberContributions[PlaceInMap(topContributors[i].login)]
              /\ \A j \in DOMAIN topContributors :
                    i < j => topContributors[i].total >= topContributors[j].total
              /\ \A k \in LeftOut :
                    memberContributions[k].total <= topContributors[i].total
        /\ Cardinality({memberContributions[k].login :
                           k \in DOMAIN memberContributions}) = Cardinality(Actors)
        /\ Len(memberContributions) = Cardinality(Actors)
        /\ ranker = "repo" => stats.totalContributors = Len(memberContributions)

\* A repository with more than ten contributors: the list is cut to ten, the
\* author met last leads it with two commits and an author with one commit
\* is left out.
C25_Witness ==
    /\ RankedDone
    /\ ranker = "repo"
    /\ Len(memberContributions) > TopRepoContributors
    /\ Len(topContributors) = TopRepoContributors
    /\ topContributors[1].total = 2
    /\ PlaceInMap(topContributors[1].login) > TopRepoContributors
    /\ \E k \in LeftOut : memberContributions[k].total = 1

----------------------------------------------------------------------------
(* C30: in a finished contribution report the counts of all day buckets     *)
(* add up to at most stats.totalContributions, and to exactly that when and *)
(* only when every commit, PR and issue is dated on a day that has a        *)
(* bucket; the totals of all contributor records add up to                  *)
(* stats.totalContributions less the number of commits without a login.     *)
RECURSIVE SumOfSet(_, _)
\* Sum of v * Times[v] over the numbers v of the set vs.
SumOfSet(vs, Times) ==
    IF vs = {} THEN 0
    ELSE LET v == CHOOSE x \in vs : TRUE
         IN  v * Times[v] + SumOfSet(vs \ {v}, Times)

SumOfCounts ==
    LET vs == {calendar[i].count : i \in DOMAIN calendar}
    IN  SumOfSet(vs, [v \in vs |->
                        Cardinality({i \in DOMAIN calendar : calendar[i].count = v})])

SumOfTotals ==
    LET vs == {memberContributions[i].total : i \in DOMAIN memberContributions}
    IN  SumOfSet(vs, [v \in vs |->
                        Cardinality({i \in DOMAIN memberContributions :
                                        memberContributions[i].total = v})])

DaysWithBucket == {calendar[i].date : i \in DOMAIN calendar}

EveryEventOnACalendarDay ==
    /\ \A i \in DOMAIN commits : toISODate(commits[i].date) \in DaysWithBucket
    /\ \A i \in DOMAIN prs : toISODate(prs[i].date) \in DaysWithBucket
    /\ \A i \in DOMAIN issues : toISODate(issues[i].date) \in DaysWithBucket

CommitsWithoutLogin ==
    Cardinality({i \in DOMAIN commits : commits[i].login = NoLogin})

C30_SumsAgreeWithStats ==
    RankedDone =>
        /\ SumOfCounts <= stats.totalContributions
        /\ (SumOfCounts = stats.totalContributions) <=> EveryEventOnACalendarDay
        /\ SumOfTotals = stats.totalContributions - CommitsWithoutLogin

\* An organization report with a commit before the window, a commit without
\* a login and a PR: both sums fall short of totalContributions.
C30_Witness ==
    /\ RankedDone
    /\ ranker = "org"
    /\ CommitsWithoutLogin > 0
    /\ ~EveryEventOnACalendarDay
    /\ Len(prs) > 0
    /\ 0 < SumOfCounts /\ SumOfCounts < stats.totalContributions
    /\ 0 < SumOfTotals /\ SumOfTotals < stats.totalContributions

----------------------------------------------------------------------------
(* C26: an event dated after the current day is in no aggregate: every key  *)
(* of the calendar and of the two weekly series lies in the window from one *)
(* year back to the current day, and a bucket counts the events of its day  *)
(* or week that are dated up to the end of the current day only.            *)
Aggregated == pc \in {"aggregated", "again", "reordered", "againReordered"}

\* The first instant after the current local day.
EndOfToday == LocalMidnight(LocalDay(now, tz) + 1, tz)

UpToToday(date) == oneYearAgoOf(now, tz) <= date /\ date < EndOfToday

\* The weight of the events up to the end of the current day whose key is k.
WeightedUpToToday(k) ==
    Cardinality({i \in DOMAIN commits :
                    commits[i].date < EndOfToday /\ toISODate(commits[i].date) = k})
    + 2 * Cardinality({i \in DOMAIN prs :
                    prs[i].date < EndOfToday /\ toISODate(prs[i].date) = k})
    + Cardinality({i \in DOMAIN issues :
                    issues[i].date < EndOfToday /\ toISODate(issues[i].date) = k})

C26_FutureEventsExcluded ==
    Aggregated =>
        /\ \A i \in DOMAIN calendar :
              /\ toISODate(oneYearAgoOf(now, tz)) <= calendar[i].date
              /\ calendar[i].date <= toISODate(setHours0(now, tz))
              /\ calendar[i].count = WeightedUpToToday(calendar[i].date)
        /\ \A w \in DOMAIN weeklyCommits :
              /\ parseISODate(weeklyCommits[w].week) < EndOfToday
              /\ weeklyCommits[w].count =
                    Cardinality({i \in DOMAIN commitsWithDates :
                        /\ UpToToday(commitsWithDates[i].date)
                        /\ getWeekKey(commitsWithDates[i].date, tz)
                              = weeklyCommits[w].week})
        /\ \A w \in DOMAIN weeklyCodeChanges :
              /\ parseISODate(weeklyCodeChanges[w].week) < EndOfToday
              /\ weeklyCodeChanges[w].additions =
                    SumField(SelectSeq(codeFreq, LAMBDA r :
                        /\ UpToToday(r[1])
                        /\ getWeekKey(r[1], tz) = weeklyCodeChanges[w].week), 2)

----------------------------------------------------------------------------
(* C27: every day bucket of the calendar is drawn in exactly one cell of    *)
(* the grid, with its count and its level; and a drawn cell whose date has  *)
(* a bucket shows that bucket.                                              *)
Rendered == pc = "rendered"

DrawnCells == {c \in DOMAIN grid : grid[c].drawn}

C27_EveryBucketDrawnOnce ==
    Rendered =>
        /\ \A i \in DOMAIN calendar :
              <<calendar[i].date, calendar[i].count, calendar[i].level>>
                 \in {<<grid[c].date, grid[c].count, grid[c].level>> :
                         c \in DrawnCells}
        /\ Cardinality({grid[c].date : c \in DrawnCells}) = Cardinality(DrawnCells)

====
